---- MODULE Spec2Model ----
(***************************************************************************)
(* Model of the durable job queue of the video platform:                   *)
(*   - the jobs table (database/schema.py) and the Job model               *)
(*     (database/models.py): create, update_status, cancel, retry, delete; *)
(*   - the in-memory PriorityQueue, JobQueue.start/stop/submit_job and the *)
(*     JobWorker loop (task_queue/job_queue.py);                           *)
(*   - the download handler and the tool adapters it calls                 *)
(*     (task_queue/handlers.py, services/video_service.py,                 *)
(*     utils/helpers.py);                                                  *)
(*   - the job routes of the API (routes/api.py);                          *)
(*   - the projects and videos tables and the Project and Video models    *)
(*     (database/models.py), and the split handler that registers clips.  *)
(* Every database statement is one atomic step (execute_write holds the    *)
(* process-wide lock, SQLite serialises statements); everything between    *)
(* two statements of one thread can interleave with the other threads.     *)
(***************************************************************************)
EXTENDS Integers, Sequences, FiniteSets, Bags, TLC

\* ---------------------------------------------------------------- bounds
MaxJobs == 1
NumWorkers == 1
NumClients == 1
MaxPriority == 1
MaxQueueCopies == 2
MaxProjects == 1
MaxVideos == 1
MaxClips == 2
SplitJobs == 2
SplitVideos == 3

\* ------------------------------------------------------ program constants
DefaultMaxRetries == 3
DownloadAttempts == 3
ConvertAttempts == 2
SplitAttempts == 2

JobIds == 1..MaxJobs
Workers == 1..NumWorkers
Clients == 1..NumClients
Priorities == 0..MaxPriority

STATUS_PENDING == "pending"
STATUS_RUNNING == "running"
STATUS_COMPLETED == "completed"
STATUS_FAILED == "failed"
STATUS_CANCELLED == "cancelled"

Terminal == {STATUS_COMPLETED, STATUS_FAILED, STATUS_CANCELLED}

\* The job types of the job-queue scenarios: 'download' has a handler in
\* JOB_HANDLERS, 'convert_aspect' (POST .../convert-aspect) has none.
JobTypes == {"download", "convert_aspect"}
JOB_HANDLERS == {"download", "upload", "caption", "burn", "split_scenes", "split_fixed",
                 "trim", "make_vertical", "browser_import"}

\* where the handler of a type starts (the model runs these two handlers)
HandlerEntry(type) ==
    IF type = "download" THEN "h10"
    ELSE IF type = "split_fixed" THEN "sf_load"
    ELSE "except"

\* "no value" arguments of update_status
NoProgress == -1
NoStatus == "None"

VARIABLES
    jobs,          \* the jobs table: id -> row (NoRow when there is no row)
    used,          \* ids (uuid4) handed out so far; never reused
    queue,         \* JobQueue.queue: bag of <<-priority, job_id>>
    worker,        \* the JobWorker threads: position, current job, locals
    api,           \* API request threads: operation, position, locals
    started,       \* JobQueue._started
    stop_event,    \* JobQueue.stop_event
    start_pc,      \* position of the thread inside JobQueue.start()
    pending_jobs,  \* start(): the rows _load_pending_jobs still has to put
    projects,      \* the projects table: id -> row (NoProject when no row)
    videos,        \* the videos table: id -> row (NoVideo when no row)
    captions,      \* the captions table: id -> row (NoCaption when no row)
    docs,          \* the JSON columns input_data, output_data and style
    whisper_models,\* caption_service.whisper_models: size -> model (0: no key)
    constructions, \* how many WhisperModel objects were constructed, by size
    db_lock,       \* DatabaseManager._lock: the thread holding it (0: free)
    users,         \* the users table: id -> row (NoUser when no row)
    srt,           \* write_srt: its arguments and the lines it wrote
    files          \* the artifact folders: the paths that exist

vars == <<jobs, used, queue, worker, api, started, stop_event, start_pc, pending_jobs,
          projects, videos, captions, docs, whisper_models, constructions, db_lock, users, srt, files>>

\* what the job-queue scenarios leave alone
other_state == <<captions, docs, whisper_models, constructions, db_lock, users, srt, files>>

\* ------------------------------------------------------------ the jobs table
\* A row of the jobs table; timestamps are 0 (NULL) or a stamp.
NoRow == [status |-> "absent", type |-> "none", priority |-> 0, project_id |-> 0,
          video_id |-> 0, url_ok |-> FALSE,
          created_at |-> 0, progress |-> 0, retry_count |-> 0, max_retries |-> 0,
          error_message |-> FALSE, started_at |-> 0, completed_at |-> 0]

Exists(J, id) == J[id].status # "absent"

\* datetime.utcnow().isoformat(): a fresh value, different from the stored one
\* (two stamps 1 and 2 suffice to tell a rewritten column from an untouched one).
Stamp(old) == IF old = 1 THEN 2 ELSE 1

\* Job.create: INSERT with the schema defaults (video_id 0 is NULL).
NewRow(type, priority, project_id, video_id, url_ok, now) ==
    [status |-> STATUS_PENDING, type |-> type, priority |-> priority,
     project_id |-> project_id, video_id |-> video_id,
     url_ok |-> url_ok, created_at |-> now, progress |-> 0, retry_count |-> 0,
     max_retries |-> DefaultMaxRetries, error_message |-> FALSE,
     started_at |-> 0, completed_at |-> 0]

\* A faulty update_status: started_at is not stamped when status is running.
UpdateStatusNoStartStamp(J, id, status, progress, error) ==
    IF ~Exists(J, id) \/ status = NoStatus THEN J
    ELSE LET r0 == J[id]
             r1 == [r0 EXCEPT !.status = status]
             r2 == IF progress # NoProgress THEN [r1 EXCEPT !.progress = progress] ELSE r1
             r3 == IF error THEN [r2 EXCEPT !.error_message = TRUE] ELSE r2
             r4 == IF status \in Terminal
                   THEN [r3 EXCEPT !.completed_at = Stamp(r0.completed_at)]
                   ELSE r3
         IN [J EXCEPT ![id] = r4]

\* Job.update_status: an unconditional UPDATE ... WHERE id = ?.
\* status NULL violates NOT NULL: the statement fails and nothing is written.
UpdateStatus(J, id, status, progress, error) ==
    IF ~Exists(J, id) \/ status = NoStatus THEN J
    ELSE LET r0 == J[id]
             r1 == [r0 EXCEPT !.status = status]
             r2 == IF progress # NoProgress THEN [r1 EXCEPT !.progress = progress] ELSE r1
             r3 == IF error THEN [r2 EXCEPT !.error_message = TRUE] ELSE r2
             r4 == IF status = STATUS_RUNNING
                   THEN [r3 EXCEPT !.started_at = Stamp(r0.started_at)]
                   ELSE IF status \in Terminal
                        THEN [r3 EXCEPT !.completed_at = Stamp(r0.completed_at)]
                        ELSE r3
         IN [J EXCEPT ![id] = r4]

\* update_job_progress(job_id, progress, message)
UpdateJobProgress(J, id, progress) == UpdateStatus(J, id, STATUS_RUNNING, progress, FALSE)

\* A faulty mapping: every legacy status but 'error' counts as completed.
MappedStatusAllCompleted(status) ==
    IF status = "error" THEN STATUS_FAILED
    ELSE IF status # NoStatus THEN STATUS_COMPLETED
    ELSE NoStatus

\* thread_safe_status_update(status_key, update_dict): maps the legacy status.
MappedStatus(status) ==
    IF status = "completed" THEN STATUS_COMPLETED
    ELSE IF status = "error" THEN STATUS_FAILED
    ELSE IF status # NoStatus THEN STATUS_RUNNING
    ELSE NoStatus

ThreadSafeStatusUpdate(J, id, status, progress, error) ==
    IF status = NoStatus /\ progress = NoProgress /\ ~error THEN J
    ELSE UpdateStatus(J, id, MappedStatus(status), progress, error)

\* A faulty Job.retry: the UPDATE without the retry_count increment.
RetryWriteNoIncrement(J, id) ==
    IF ~Exists(J, id) THEN J
    ELSE [J EXCEPT ![id].status = STATUS_PENDING,
                   ![id].error_message = FALSE]

\* Job.retry, the UPDATE statement.
RetryWrite(J, id) ==
    IF ~Exists(J, id) THEN J
    ELSE [J EXCEPT ![id].status = STATUS_PENDING,
                   ![id].retry_count = @ + 1,
                   ![id].error_message = FALSE]

\* Job.retry, the check before the UPDATE.
RetryAllowed(J, id) == Exists(J, id) /\ J[id].retry_count < J[id].max_retries

\* Job.cancel, the check before update_status.
CancelAllowed(J, id) == Exists(J, id) /\ J[id].status \notin Terminal

\* ------------------------------------------- the projects and videos tables
\* A row of the projects table; is_deleted is the soft-delete flag.
NoProject == [name |-> "absent", is_deleted |-> 0, updated_at |-> 0]

ProjectExists(P, p) == P[p].name # "absent"

\* Project.create: INSERT with the schema defaults.
NewProject(name) == [name |-> name, is_deleted |-> 0, updated_at |-> 1]

\* A file name: f"{uuid4()}.mp4" (a fresh base), or the name split_fixed
\* derives from its input file, f"{base_name}_part_{i}.mp4".
NoName == [kind |-> "none", base |-> 0, part |-> 0]
UuidName(n) == [kind |-> "uuid", base |-> n, part |-> 0]
PartName(input, i) == [kind |-> "part", base |-> input.base, part |-> i]

\* A row of the videos table (parent_video_id 0 is NULL).
NoVideo == [title |-> "absent", project_id |-> 0, filename |-> NoName,
            parent_video_id |-> 0, is_clip |-> 0, is_deleted |-> 0, updated_at |-> 0]

VideoExists(V, v) == V[v].title # "absent"

\* Video.create: INSERT with the schema defaults.
NewVideo(project_id, title, filename, parent_video_id, is_clip) ==
    [title |-> title, project_id |-> project_id, filename |-> filename,
     parent_video_id |-> parent_video_id, is_clip |-> is_clip,
     is_deleted |-> 0, updated_at |-> 1]

\* The UPDATE triggers set updated_at = CURRENT_TIMESTAMP on every UPDATE.
\* Project.update(project_id, name=...): no filter on is_deleted.
ProjectUpdate(P, p, name) ==
    IF ProjectExists(P, p)
    THEN [P EXCEPT ![p].name = name, ![p].updated_at = Stamp(@)] ELSE P

\* Project.delete(project_id): UPDATE projects SET is_deleted = 1
ProjectDelete(P, p) ==
    IF ProjectExists(P, p)
    THEN [P EXCEPT ![p].is_deleted = 1, ![p].updated_at = Stamp(@)] ELSE P

\* Project.restore(project_id): UPDATE projects SET is_deleted = 0
ProjectRestore(P, p) ==
    IF ProjectExists(P, p)
    THEN [P EXCEPT ![p].is_deleted = 0, ![p].updated_at = Stamp(@)] ELSE P

\* Project.get_by_id: the row, or None (NoProject)
ProjectGetById(P, p) ==
    IF ProjectExists(P, p) /\ P[p].is_deleted = 0 THEN P[p] ELSE NoProject

\* Project.get_all(include_deleted): the rows returned
ProjectGetAll(P, include_deleted) ==
    {P[p] : p \in {q \in DOMAIN P : /\ ProjectExists(P, q)
                                     /\ (include_deleted \/ P[q].is_deleted = 0)}}

\* Video.update(video_id, title=...): no filter on is_deleted.
VideoUpdate(V, v, title) ==
    IF VideoExists(V, v)
    THEN [V EXCEPT ![v].title = title, ![v].updated_at = Stamp(@)] ELSE V

\* Video.delete_multiple(video_ids): UPDATE ... SET is_deleted = 1 WHERE id IN
VideoDeleteMultiple(V, ids) ==
    [v \in DOMAIN V |->
        IF v \in ids /\ VideoExists(V, v)
        THEN [V[v] EXCEPT !.is_deleted = 1, !.updated_at = Stamp(@)] ELSE V[v]]

\* Video.delete(video_id): UPDATE videos SET is_deleted = 1
VideoDelete(V, v) == VideoDeleteMultiple(V, {v})

\* A faulty restore: the row is written back with the default title.
VideoRestoreAsNew(V, v) ==
    IF VideoExists(V, v)
    THEN [V EXCEPT ![v].is_deleted = 0, ![v].title = "a", ![v].updated_at = Stamp(@)] ELSE V

\* Video.restore(video_id): UPDATE videos SET is_deleted = 0
VideoRestore(V, v) ==
    IF VideoExists(V, v)
    THEN [V EXCEPT ![v].is_deleted = 0, ![v].updated_at = Stamp(@)] ELSE V

\* Video.get_by_id: the row, or None (NoVideo)
VideoGetById(V, v) ==
    IF VideoExists(V, v) /\ V[v].is_deleted = 0 THEN V[v] ELSE NoVideo

\* A faulty get_by_project: the is_deleted filter is left out.
VideoGetByProjectUnfiltered(V, p, include_deleted) ==
    {V[v] : v \in {u \in DOMAIN V : VideoExists(V, u) /\ V[u].project_id = p}}

\* Video.get_by_project(project_id, include_deleted): the rows returned
VideoGetByProject(V, p, include_deleted) ==
    {V[v] : v \in {u \in DOMAIN V : /\ VideoExists(V, u)
                                     /\ V[u].project_id = p
                                     /\ (include_deleted \/ V[u].is_deleted = 0)}}

\* uuid4(): an id no row of the table has.
FreshVideoIds(V) == {v \in DOMAIN V : ~VideoExists(V, v)}
FreshProjectIds(P) == {p \in DOMAIN P : ~ProjectExists(P, p)}

\* ---------------------------------------------------------- the captions table
MaxCaptions == 1

\* A row of the captions table (video_id 0: there is no row).
NoCaption == [video_id |-> 0, is_deleted |-> 0, updated_at |-> 0]

CaptionExists(C, k) == C[k].video_id # 0

\* Caption.create: INSERT with the schema defaults.
NewCaption(video_id) == [video_id |-> video_id, is_deleted |-> 0, updated_at |-> 1]

FreshCaptionIds(C) == {k \in DOMAIN C : ~CaptionExists(C, k)}

\* ------------------------------------------------- foreign keys, hard delete
\* DELETE FROM videos WHERE id IN gone, with PRAGMA foreign_keys = ON: the
\* rows go, and parent_video_id ... ON DELETE SET NULL clears the pointers
\* of the rows that stay. A faulty version leaves the pointers.
VideosRemoveDangling(V, gone) ==
    [u \in DOMAIN V |-> IF u \in gone THEN NoVideo ELSE V[u]]

VideosRemove(V, gone) ==
    [u \in DOMAIN V |->
        IF u \in gone THEN NoVideo
        ELSE IF V[u].parent_video_id \in gone THEN [V[u] EXCEPT !.parent_video_id = 0]
        ELSE V[u]]

\* jobs.video_id and jobs.project_id ... ON DELETE CASCADE
JobsCascade(J, gone_videos, gone_projects) ==
    [id \in DOMAIN J |->
        IF Exists(J, id) /\ (J[id].video_id \in gone_videos \/ J[id].project_id \in gone_projects)
        THEN NoRow ELSE J[id]]

\* captions.video_id ... ON DELETE CASCADE
CaptionsCascade(C, gone_videos) ==
    [k \in DOMAIN C |-> IF C[k].video_id \in gone_videos THEN NoCaption ELSE C[k]]

\* the videos of a project (videos.project_id ... ON DELETE CASCADE)
VideosOfProject(V, p) == {v \in DOMAIN V : VideoExists(V, v) /\ V[v].project_id = p}

\* FOREIGN KEY (parent_video_id) REFERENCES videos(id): NULL or an existing row
ParentAllowed(V, parent) == parent = 0 \/ (parent \in DOMAIN V /\ VideoExists(V, parent))

\* ------------------------------------------------------- update(id, **kwargs)
\* The keyword arguments of an update call: a key that is not passed holds
\* Missing (for a string) or MissingInt.
Missing == "missing"
MissingInt == -1

ProjectAllowedFields == {"name", "description"}
VideoAllowedFields == {"title", "filename", "source_url", "duration", "width", "height",
                       "size_bytes", "is_clip", "parent_video_id"}

\* A faulty Project.update: is_deleted passes the filter.
ProjectUpdateKwargsUngated(P, p, kwargs) ==
    IF ~ProjectExists(P, p) THEN P
    ELSE [P EXCEPT ![p].name = IF kwargs.name # Missing THEN kwargs.name ELSE @,
                   ![p].is_deleted = IF kwargs.is_deleted # MissingInt
                                     THEN kwargs.is_deleted ELSE @,
                   ![p].updated_at = Stamp(@)]

\* Project.update(project_id, **kwargs) with the keys name, is_deleted and
\* project_id: a key project_id collides with the parameter (TypeError,
\* nothing is written); only name is in allowed_fields; without an allowed
\* key there is no UPDATE.
ProjectUpdateKwargs(P, p, kwargs) ==
    IF kwargs.project_id # MissingInt THEN P
    ELSE IF ~("name" \in ProjectAllowedFields /\ kwargs.name # Missing) THEN P
    ELSE IF ~ProjectExists(P, p) THEN P
    ELSE [P EXCEPT ![p].name = kwargs.name, ![p].updated_at = Stamp(@)]

\* Video.update(video_id, **kwargs) with the keys title, parent_video_id,
\* project_id and is_deleted: the keys in allowed_fields are written in one
\* UPDATE, which fails as a whole when parent_video_id names no row.
VideoUpdateKwargs(V, v, kwargs) ==
    LET set_title == "title" \in VideoAllowedFields /\ kwargs.title # Missing
        set_parent == "parent_video_id" \in VideoAllowedFields
                      /\ kwargs.parent_video_id # MissingInt
        set_project == "project_id" \in VideoAllowedFields /\ kwargs.project_id # MissingInt
        set_deleted == "is_deleted" \in VideoAllowedFields /\ kwargs.is_deleted # MissingInt
    IN IF ~(set_title \/ set_parent \/ set_project \/ set_deleted) THEN V
       ELSE IF ~VideoExists(V, v) THEN V
       ELSE IF set_parent /\ ~ParentAllowed(V, kwargs.parent_video_id) THEN V
       ELSE [V EXCEPT ![v].title = IF set_title THEN kwargs.title ELSE @,
                      ![v].parent_video_id = IF set_parent THEN kwargs.parent_video_id ELSE @,
                      ![v].project_id = IF set_project THEN kwargs.project_id ELSE @,
                      ![v].is_deleted = IF set_deleted THEN kwargs.is_deleted ELSE @,
                      ![v].updated_at = Stamp(@)]

\* ------------------------------------------------------------ the JSON columns
\* A Python value stored in a dict: a str, an int or a bool, written as its
\* type and its repr.
Leaves == {[t |-> "str", v |-> "a"], [t |-> "int", v |-> "1"],
           [t |-> "bool", v |-> "True"]}
DictKeys == {"k1", "k2"}

\* A dict: a set of <<key, value>> items with one value for a key.
Dicts == {d \in SUBSET (DictKeys \X Leaves) :
             \A i, j \in d : i[1] = j[1] => i = j}

\* What a model method returns for the field: None or a dict.
PyNone == [none |-> TRUE, items |-> {}]
PyDict(d) == [none |-> FALSE, items |-> d]

\* A TEXT column: NULL or a string, here the list of its JSON members.
NullText == [null |-> TRUE, text |-> <<>>]
Text(t) == [null |-> FALSE, text |-> t]

\* json.dumps of a leaf and json.loads of its token
DumpsLeaf(l) ==
    CASE l.t = "str" -> "\"a\""
      [] l.t = "int" -> "1"
      [] l.t = "bool" -> "true"

LoadsLeaf(token) ==
    CASE token = "\"a\"" -> [t |-> "str", v |-> "a"]
      [] token = "1" -> [t |-> "int", v |-> "1"]
      [] token = "true" -> [t |-> "bool", v |-> "True"]

\* json.dumps(d): the members "key": token in the order of the dict
RECURSIVE DumpsItems(_)
DumpsItems(d) ==
    IF d = {} THEN <<>>
    ELSE LET i == CHOOSE i \in d : \A j \in d : i[1] = "k1" \/ j[1] # "k1"
         IN <<<<i[1], DumpsLeaf(i[2])>>>> \o DumpsItems(d \ {i})

Dumps(d) == Text(DumpsItems(d))

\* json.loads(text): the dict of the members
Loads(text) == {<<text[n][1], LoadsLeaf(text[n][2])>> : n \in DOMAIN text}

\* `if x:` on a dict and on a column value (None and '' and {} are falsy)
TruthyDict(d) == d # {}
TruthyText(col) == ~col.null

\* json.dumps(x) if x else None, of Job.create and Caption.create
DumpsIfAny(d) == IF TruthyDict(d) THEN Dumps(d) ELSE NullText

\* the parse of Job.get_by_id and Caption.get_by_id:
\* if result.get(field): result[field] = json.loads(result[field])
ReadField(col) == IF TruthyText(col) THEN PyDict(Loads(col.text)) ELSE PyNone

\* A JSON column and the dict the last write was called with.
NoDoc == [col |-> NullText, written |-> FALSE, arg |-> {}]
DocFields == {"input_data", "output_data", "style"}

\* ------------------------------------------------------------ the users table
MaxUsers == 2

\* A row of the users table; username and passcode are UNIQUE NOT NULL.
NoUser == [username |-> "absent", passcode |-> "absent", role |-> "none", is_deleted |-> 0]

UserExists(U, u) == U[u].username # "absent"

\* the UNIQUE constraints: no other row has the username or the passcode
UniqueAllowed(U, u, username, passcode) ==
    \A o \in DOMAIN U \ {u} :
        UserExists(U, o) => (U[o].username # username /\ U[o].passcode # passcode)

\* User.create(username, passcode, role): the INSERT, or None (no change)
\* when it raises IntegrityError.
UserCreate(U, username, passcode, role) ==
    LET fresh == {u \in DOMAIN U : ~UserExists(U, u)}
        u == CHOOSE u \in fresh : TRUE
    IN IF fresh # {} /\ UniqueAllowed(U, u, username, passcode)
       THEN [U EXCEPT ![u] = [username |-> username, passcode |-> passcode, role |-> role,
                              is_deleted |-> 0]]
       ELSE U

\* the arguments of write_srt before any call
NoSrt == [segments |-> <<>>, word_level |-> FALSE, lines |-> <<>>, called |-> FALSE]

\* the model_size values of caption jobs ('tiny' is the default)
ModelSizes == {"tiny", "base"}

OtherInit ==
    /\ captions = [k \in 1..MaxCaptions |-> NoCaption]
    /\ docs = [f \in DocFields |-> NoDoc]
    /\ whisper_models = [s \in ModelSizes |-> 0]
    /\ constructions = [s \in ModelSizes |-> 0]
    /\ db_lock = 0
    /\ users = [u \in 1..MaxUsers |-> NoUser]
    /\ srt = NoSrt
    /\ files = {}

\* ------------------------------------------------------------------ the queue
\* A faulty queue entry: the priority is not negated.
EntryNotNegated(J, id) == <<J[id].priority, id>>

\* the tuple put on the PriorityQueue for a row: (-job['priority'], job['id'])
Entry(J, id) == <<-J[id].priority, id>>

\* Python tuple order on (-priority, job_id)
EntryLE(e, f) == e[1] < f[1] \/ (e[1] = f[1] /\ e[2] <= f[2])

QueueMin(q) == CHOOSE e \in BagToSet(q) : \A f \in BagToSet(q) : EntryLE(e, f)

Put(q, e) == q (+) SetToBag({e})

QueueCount(q, id) ==
    LET es == {e \in BagToSet(q) : e[2] = id}
    IN IF es = {} THEN 0 ELSE CopiesIn(CHOOSE e \in es : TRUE, q)

\* the model stops putting an id that already has MaxQueueCopies entries
CanPut(q, id) == QueueCount(q, id) < MaxQueueCopies

\* ------------------------------------------------------------------- threads
\* job, type, project_id, video_id, url_ok: the job dict process_job loaded;
\* attempt: retry_on_failure's counter; video, clips, video_ids: the split
\* handler's source row, the length of its clips_data and the ids registered.
IdleWorker == [pc |-> "none", job |-> 0, type |-> "none", project_id |-> 0, video_id |-> 0,
               url_ok |-> FALSE, attempt |-> 0, video |-> NoVideo, clips |-> 0,
               video_ids |-> <<>>]
IdleClient == [op |-> "idle", job |-> 0, priority |-> 0]

Init ==
    /\ jobs = [id \in JobIds |-> NoRow]
    /\ used = {}
    /\ queue = EmptyBag
    /\ worker = [w \in Workers |-> IdleWorker]
    /\ api = [c \in Clients |-> IdleClient]
    /\ started = FALSE
    /\ stop_event = FALSE
    /\ start_pc = "none"
    /\ pending_jobs = <<>>
    /\ projects = [p \in 1..MaxProjects |-> NoProject]
    /\ videos = [v \in 1..MaxVideos |-> NoVideo]
    /\ OtherInit

\* ------------------------------------------------------------- API requests
\* POST /projects -> Project.create(name): one INSERT.
ApiCreateProject(c) ==
    /\ api[c].op = "idle"
    /\ \E p \in FreshProjectIds(projects) :
          projects' = [projects EXCEPT ![p] = NewProject("a")]
    /\ UNCHANGED <<other_state, jobs, used, queue, worker, api, started, stop_event, start_pc,
                   pending_jobs, videos>>

\* JobQueue.submit_job, first half: Job.create inserts the pending row; the
\* project_id must be the id of a projects row (FOREIGN KEY).
\* POST /download passes the caller's priority; POST .../convert-aspect none.
SubmitCreate(c, types, priorities) ==
    /\ api[c].op = "idle"
    /\ \E id \in DOMAIN jobs \ used, type \in types, priority \in priorities,
          p \in DOMAIN projects, url_ok \in BOOLEAN :
          /\ ProjectExists(projects, p)
          /\ type = "convert_aspect" => (priority = 0 /\ ~url_ok)
          /\ jobs' = [jobs EXCEPT ![id] = NewRow(type, priority, p, 0, url_ok,
                                                 Cardinality(used) + 1)]
          /\ used' = used \cup {id}
          /\ api' = [api EXCEPT ![c] = [op |-> "submit", job |-> id, priority |-> priority]]
    /\ UNCHANGED <<other_state, projects, videos, queue, worker, started, stop_event, start_pc, pending_jobs>>

\* A faulty submit_job: the id is put on the queue before the row is written.
ApiSubmitPutFirst(c) ==
    /\ api[c].op = "idle"
    /\ \E id \in DOMAIN jobs \ used, priority \in Priorities :
          /\ queue' = Put(queue, <<-priority, id>>)
          /\ api' = [api EXCEPT ![c] = [op |-> "submit", job |-> id, priority |-> priority]]
    /\ UNCHANGED <<other_state, projects, videos, jobs, used, worker, started, stop_event, start_pc, pending_jobs>>

ApiSubmitCreate(c) == SubmitCreate(c, JobTypes, Priorities)

\* JobQueue.submit_job, second half: queue.put((-priority, job_id)).
ApiSubmitPut(c) ==
    /\ api[c].op = "submit"
    /\ queue' = Put(queue, <<-api[c].priority, api[c].job>>)
    /\ api' = [api EXCEPT ![c] = IdleClient]
    /\ UNCHANGED <<other_state, projects, videos, jobs, used, worker, started, stop_event, start_pc, pending_jobs>>

\* Job.cancel, the read: get_by_id and the terminal check (False: no effect).
ApiCancelRead(c) ==
    /\ api[c].op = "idle"
    /\ \E id \in used :
          /\ CancelAllowed(jobs, id)
          /\ api' = [api EXCEPT ![c] = [op |-> "cancel", job |-> id, priority |-> 0]]
    /\ UNCHANGED <<other_state, projects, videos, jobs, used, queue, worker, started, stop_event, start_pc, pending_jobs>>

\* Job.cancel, the write: update_status(job_id, cancelled); returns True.
ApiCancelWrite(c) ==
    /\ api[c].op = "cancel"
    /\ jobs' = UpdateStatus(jobs, api[c].job, STATUS_CANCELLED, NoProgress, FALSE)
    /\ api' = [api EXCEPT ![c] = IdleClient]
    /\ UNCHANGED <<other_state, projects, videos, used, queue, worker, started, stop_event, start_pc, pending_jobs>>

\* POST /jobs/<id>/retry -> Job.retry, the read (False: no effect).
ApiRetryRead(c) ==
    /\ api[c].op = "idle"
    /\ \E id \in used :
          /\ RetryAllowed(jobs, id)
          /\ api' = [api EXCEPT ![c] = [op |-> "retry", job |-> id, priority |-> 0]]
    /\ UNCHANGED <<other_state, projects, videos, jobs, used, queue, worker, started, stop_event, start_pc, pending_jobs>>

\* Job.retry, the UPDATE; returns True.
ApiRetryWrite(c) ==
    /\ api[c].op = "retry"
    /\ jobs' = RetryWrite(jobs, api[c].job)
    /\ api' = [api EXCEPT ![c] = [api[c] EXCEPT !.op = "requeue"]]
    /\ UNCHANGED <<other_state, projects, videos, used, queue, worker, started, stop_event, start_pc, pending_jobs>>

\* retry_job after success: job = Job.get_by_id; queue.put((-job['priority'], job_id))
\* (a row deleted meanwhile makes job None: the request fails without a put).
ApiRetryPut(c) ==
    /\ api[c].op = "requeue"
    /\ IF Exists(jobs, api[c].job)
       THEN /\ CanPut(queue, api[c].job)
            /\ queue' = Put(queue, Entry(jobs, api[c].job))
       ELSE queue' = queue
    /\ api' = [api EXCEPT ![c] = IdleClient]
    /\ UNCHANGED <<other_state, projects, videos, jobs, used, worker, started, stop_event, start_pc, pending_jobs>>

\* DELETE /jobs/<id> -> Job.delete: one DELETE statement.
ApiDelete(c) ==
    /\ api[c].op = "idle"
    /\ \E id \in used :
          /\ Exists(jobs, id)
          /\ jobs' = [jobs EXCEPT ![id] = NoRow]
    /\ UNCHANGED <<other_state, projects, videos, used, queue, worker, api, started, stop_event, start_pc, pending_jobs>>

\* ---------------------------------------------------------- JobQueue.start
\* Job.get_pending_jobs: status = pending ORDER BY priority DESC, created_at ASC
PendingBefore(r, s) ==
    r.priority > s.priority \/ (r.priority = s.priority /\ r.created_at <= s.created_at)

RECURSIVE SortPending(_, _)
SortPending(J, ids) ==
    IF ids = {} THEN <<>>
    ELSE LET first == CHOOSE i \in ids : \A k \in ids : PendingBefore(J[i], J[k])
         IN <<Entry(J, first)>> \o SortPending(J, ids \ {first})

\* A faulty get_pending_jobs: the SELECT also returns the running rows.
GetUnfinishedJobs(J) ==
    SortPending(J, {id \in DOMAIN J : J[id].status \in {STATUS_PENDING, STATUS_RUNNING}})

GetPendingJobs(J) == SortPending(J, {id \in DOMAIN J : J[id].status = STATUS_PENDING})

\* start(), under _lock: not started; creates and starts the worker threads.
\* A thread still busy from before a stop() keeps running its job.
StartBegin ==
    /\ ~started
    /\ start_pc = "none"
    /\ worker' = [w \in DOMAIN worker |->
                    IF worker[w].pc \in {"none", "stopped"}
                    THEN [IdleWorker EXCEPT !.pc = "idle"] ELSE worker[w]]
    /\ start_pc' = "load"
    /\ UNCHANGED <<other_state, projects, videos, jobs, used, queue, api, started, stop_event, pending_jobs>>

\* _load_pending_jobs: the SELECT; with no pending rows start() is done.
StartSelect ==
    /\ start_pc = "load"
    /\ LET rows == GetPendingJobs(jobs)
       IN IF rows = <<>>
          THEN /\ started' = TRUE
               /\ start_pc' = "none"
               /\ pending_jobs' = <<>>
          ELSE /\ started' = started
               /\ start_pc' = "put"
               /\ pending_jobs' = rows
    /\ UNCHANGED <<other_state, projects, videos, jobs, used, queue, worker, api, stop_event>>

\* _load_pending_jobs: one queue.put per row; after the last, _started = True.
StartPut ==
    /\ start_pc = "put"
    /\ CanPut(queue, Head(pending_jobs)[2])
    /\ queue' = Put(queue, Head(pending_jobs))
    /\ pending_jobs' = Tail(pending_jobs)
    /\ IF Tail(pending_jobs) = <<>>
       THEN started' = TRUE /\ start_pc' = "none"
       ELSE started' = started /\ start_pc' = start_pc
    /\ UNCHANGED <<other_state, projects, videos, jobs, used, worker, api, stop_event>>

\* stop(), under _lock: sets the event (never cleared), forgets the workers.
Stop ==
    /\ started
    /\ start_pc = "none"
    /\ stop_event' = TRUE
    /\ started' = FALSE
    /\ UNCHANGED <<other_state, projects, videos, jobs, used, queue, worker, api, start_pc, pending_jobs>>

\* The process dies and a new one is constructed: memory is lost, rows stay.
Crash ==
    /\ queue' = EmptyBag
    /\ worker' = [w \in DOMAIN worker |-> IdleWorker]
    /\ api' = [c \in DOMAIN api |-> IdleClient]
    /\ started' = FALSE
    /\ stop_event' = FALSE
    /\ start_pc' = "none"
    /\ pending_jobs' = <<>>
    /\ UNCHANGED <<other_state, projects, videos, jobs, used>>

\* ------------------------------------------------------------ JobWorker.run
SetPc(w, pc) == [worker EXCEPT ![w].pc = pc]

\* process_job returns (finally: current_job_id = None), run() calls task_done.
Release(w) == [worker EXCEPT ![w] = [IdleWorker EXCEPT !.pc = "idle"]]

\* A faulty loop test: the stop event is not looked at.
WorkerLoopIgnoringStop(w) ==
    /\ worker[w].pc = "idle"
    /\ worker' = SetPc(w, "waiting")
    /\ UNCHANGED <<other_state, projects, videos, jobs, used, queue, api, started, stop_event, start_pc, pending_jobs>>

\* while not self.stop_event.is_set(): the loop test.
WorkerLoop(w) ==
    /\ worker[w].pc = "idle"
    /\ worker' = SetPc(w, IF stop_event THEN "stopped" ELSE "waiting")
    /\ UNCHANGED <<other_state, projects, videos, jobs, used, queue, api, started, stop_event, start_pc, pending_jobs>>

\* job_queue.get(timeout=1.0) returns the smallest entry.
WorkerGet(w) ==
    /\ worker[w].pc = "waiting"
    /\ queue # EmptyBag
    /\ LET e == QueueMin(queue)
       IN /\ queue' = queue (-) SetToBag({e})
          /\ worker' = [worker EXCEPT ![w].pc = "load", ![w].job = e[2]]
    /\ UNCHANGED <<other_state, projects, videos, jobs, used, api, started, stop_event, start_pc, pending_jobs>>

\* job_queue.get(timeout=1.0) raises queue.Empty: continue.
WorkerTimeout(w) ==
    /\ worker[w].pc = "waiting"
    /\ queue = EmptyBag
    /\ worker' = SetPc(w, "idle")
    /\ UNCHANGED <<other_state, projects, videos, jobs, used, queue, api, started, stop_event, start_pc, pending_jobs>>

\* A faulty process_job: a missing row is not tested for.
ProcessLoadRunsMissing(w) ==
    /\ worker[w].pc = "load"
    /\ LET id == worker[w].job
       IN IF Exists(jobs, id) /\ jobs[id].status = STATUS_CANCELLED
          THEN worker' = Release(w)
          ELSE worker' = [worker EXCEPT ![w].pc = "setrun",
                                        ![w].type = jobs[id].type,
                                        ![w].project_id = jobs[id].project_id,
                                        ![w].video_id = jobs[id].video_id,
                                        ![w].url_ok = jobs[id].url_ok]
    /\ UNCHANGED <<other_state, projects, videos, jobs, used, queue, api, started, stop_event, start_pc, pending_jobs>>

\* A faulty process_job: a pending job is skipped like a cancelled one.
ProcessLoadSkipPending(w) ==
    /\ worker[w].pc = "load"
    /\ LET id == worker[w].job
       IN IF ~Exists(jobs, id) \/ jobs[id].status \in {STATUS_CANCELLED, STATUS_PENDING}
          THEN worker' = Release(w)
          ELSE worker' = [worker EXCEPT ![w].pc = "setrun",
                                        ![w].type = jobs[id].type,
                                        ![w].project_id = jobs[id].project_id,
                                        ![w].video_id = jobs[id].video_id,
                                        ![w].url_ok = jobs[id].url_ok]
    /\ UNCHANGED <<other_state, projects, videos, jobs, used, queue, api, started, stop_event, start_pc, pending_jobs>>

\* process_job: job = Job.get_by_id(job_id); missing or cancelled: return.
ProcessLoad(w) ==
    /\ worker[w].pc = "load"
    /\ LET id == worker[w].job
       IN IF ~Exists(jobs, id) \/ jobs[id].status = STATUS_CANCELLED
          THEN worker' = Release(w)
          ELSE worker' = [worker EXCEPT ![w].pc = "setrun",
                                        ![w].type = jobs[id].type,
                                        ![w].project_id = jobs[id].project_id,
                                        ![w].video_id = jobs[id].video_id,
                                        ![w].url_ok = jobs[id].url_ok]
    /\ UNCHANGED <<other_state, projects, videos, jobs, used, queue, api, started, stop_event, start_pc, pending_jobs>>

\* process_job: update_status(running, progress=0), then the handler lookup:
\* no handler raises ValueError inside the try block.
ProcessSetRunning(w) ==
    /\ worker[w].pc = "setrun"
    /\ jobs' = UpdateStatus(jobs, worker[w].job, STATUS_RUNNING, 0, FALSE)
    /\ worker' = SetPc(w, IF worker[w].type \in JOB_HANDLERS
                           THEN HandlerEntry(worker[w].type) ELSE "except")
    /\ UNCHANGED <<other_state, projects, videos, used, queue, api, started, stop_event, start_pc, pending_jobs>>

\* ------------------------------------------------------ handle_download_job
\* The job dict the handler works on is the row the worker loaded. The url
\* and project_id were validated by POST /download, so the handler's own
\* ValueError is not reachable; the download takes the yt-dlp path, whose
\* progress hook passes no status to thread_safe_status_update and so writes
\* nothing (see UpdateStatus). url_ok = FALSE is an unreachable url: every
\* download attempt fails; a reachable url can still fail.
\* update_job_progress(job['id'], 10, ...), then download_video is entered.
HandlerProgress10(w) ==
    /\ worker[w].pc = "h10"
    /\ jobs' = UpdateJobProgress(jobs, worker[w].job, 10)
    /\ worker' = [worker EXCEPT ![w].pc = "dl_enter", ![w].attempt = 0]
    /\ UNCHANGED <<other_state, projects, videos, used, queue, api, started, stop_event, start_pc, pending_jobs>>

\* download_video: thread_safe_status_update({'status': 'downloading', 'progress': 0})
DownloadEnter(w) ==
    /\ worker[w].pc = "dl_enter"
    /\ jobs' = ThreadSafeStatusUpdate(jobs, worker[w].job, "downloading", 0, FALSE)
    /\ worker' = SetPc(w, "dl_body")
    /\ UNCHANGED <<other_state, projects, videos, used, queue, api, started, stop_event, start_pc, pending_jobs>>

\* download_video succeeds: {'status': 'downloaded', 'progress': 50}
DownloadOk(w) ==
    /\ worker[w].pc = "dl_body"
    /\ worker[w].url_ok
    /\ jobs' = ThreadSafeStatusUpdate(jobs, worker[w].job, "downloaded", 50, FALSE)
    /\ worker' = [worker EXCEPT ![w].pc = "h60", ![w].attempt = 0]
    /\ UNCHANGED <<other_state, projects, videos, used, queue, api, started, stop_event, start_pc, pending_jobs>>

\* retry_on_failure: the wrapped call is made again while attempts remain,
\* then the last exception is raised to the caller.
AfterError(w, attempts, enter) ==
    IF worker[w].attempt < attempts - 1
    THEN [worker EXCEPT ![w].pc = enter, ![w].attempt = @ + 1]
    ELSE [worker EXCEPT ![w].pc = "except", ![w].attempt = 0]

\* download_video fails: {'status': 'error', 'error': str(e)}; raise.
DownloadError(w) ==
    /\ worker[w].pc = "dl_body"
    /\ jobs' = ThreadSafeStatusUpdate(jobs, worker[w].job, "error", NoProgress, TRUE)
    /\ worker' = AfterError(w, DownloadAttempts, "dl_enter")
    /\ UNCHANGED <<other_state, projects, videos, used, queue, api, started, stop_event, start_pc, pending_jobs>>

\* update_job_progress(job['id'], 60, ...), then convert_to_tiktok_aspect.
HandlerProgress60(w) ==
    /\ worker[w].pc = "h60"
    /\ jobs' = UpdateJobProgress(jobs, worker[w].job, 60)
    /\ worker' = [worker EXCEPT ![w].pc = "cv_enter", ![w].attempt = 0]
    /\ UNCHANGED <<other_state, projects, videos, used, queue, api, started, stop_event, start_pc, pending_jobs>>

\* convert_to_tiktok_aspect: {'status': 'processing', 'progress': 60}
ConvertEnter(w) ==
    /\ worker[w].pc = "cv_enter"
    /\ jobs' = ThreadSafeStatusUpdate(jobs, worker[w].job, "processing", 60, FALSE)
    /\ worker' = SetPc(w, "cv_body")
    /\ UNCHANGED <<other_state, projects, videos, used, queue, api, started, stop_event, start_pc, pending_jobs>>

\* convert_to_tiktok_aspect succeeds: {'status': 'completed', 'progress': 100}
ConvertOk(w) ==
    /\ worker[w].pc = "cv_body"
    /\ jobs' = ThreadSafeStatusUpdate(jobs, worker[w].job, "completed", 100, FALSE)
    /\ worker' = [worker EXCEPT ![w].pc = "h95", ![w].attempt = 0]
    /\ UNCHANGED <<other_state, projects, videos, used, queue, api, started, stop_event, start_pc, pending_jobs>>

\* convert_to_tiktok_aspect fails: {'status': 'error', 'error': str(e)}; raise.
ConvertError(w) ==
    /\ worker[w].pc = "cv_body"
    /\ jobs' = ThreadSafeStatusUpdate(jobs, worker[w].job, "error", NoProgress, TRUE)
    /\ worker' = AfterError(w, ConvertAttempts, "cv_enter")
    /\ UNCHANGED <<other_state, projects, videos, used, queue, api, started, stop_event, start_pc, pending_jobs>>

\* update_job_progress(job['id'], 95, "Finalizing...")
HandlerProgress95(w) ==
    /\ worker[w].pc = "h95"
    /\ jobs' = UpdateJobProgress(jobs, worker[w].job, 95)
    /\ worker' = SetPc(w, "dl_video")
    /\ UNCHANGED <<other_state, projects, videos, used, queue, api, started, stop_event, start_pc, pending_jobs>>

\* Video.create(project_id, title, filename=f"{base_id}.mp4"); the handler
\* returns (the model has at most as many video rows as the table has ids).
DownloadCreateVideo(w) ==
    /\ worker[w].pc = "dl_video"
    /\ \E v \in FreshVideoIds(videos) :
          videos' = [videos EXCEPT ![v] = NewVideo(worker[w].project_id, "a", UuidName(v), 0, 0)]
    /\ worker' = SetPc(w, "done")
    /\ UNCHANGED <<other_state, jobs, used, queue, api, started, stop_event, start_pc, pending_jobs,
                   projects>>

\* --------------------------------------------------- handle_split_fixed_job
\* video = Video.get_by_id(video_id): None for a soft-deleted row, and then
\* get_video_path(None) raises TypeError.
SplitLoad(w) ==
    /\ worker[w].pc = "sf_load"
    /\ LET v == worker[w].video_id
       IN IF VideoExists(videos, v) /\ videos[v].is_deleted = 0
          THEN worker' = [worker EXCEPT ![w].pc = "sf10", ![w].video = videos[v]]
          ELSE worker' = SetPc(w, "except")
    /\ UNCHANGED <<other_state, jobs, used, queue, api, started, stop_event, start_pc, pending_jobs,
                   projects, videos>>

\* update_job_progress(job['id'], 10, "Splitting video..."), then split_fixed.
SplitProgress10(w) ==
    /\ worker[w].pc = "sf10"
    /\ jobs' = UpdateJobProgress(jobs, worker[w].job, 10)
    /\ worker' = [worker EXCEPT ![w].pc = "sf_enter", ![w].attempt = 0]
    /\ UNCHANGED <<other_state, used, queue, api, started, stop_event, start_pc, pending_jobs,
                   projects, videos>>

\* split_fixed: thread_safe_status_update({'status': 'splitting', 'progress': 10})
SplitEnter(w) ==
    /\ worker[w].pc = "sf_enter"
    /\ jobs' = ThreadSafeStatusUpdate(jobs, worker[w].job, "splitting", 10, FALSE)
    /\ worker' = SetPc(w, "sf_body")
    /\ UNCHANGED <<other_state, used, queue, api, started, stop_event, start_pc, pending_jobs,
                   projects, videos>>

\* split_fixed succeeds: ffmpeg writes num_clips files named after the input
\* file (the {'progress': ...} updates of its loop pass no status and write
\* nothing), then {'status': 'completed', 'progress': 100}; returns the clips.
SplitOk(w) ==
    /\ worker[w].pc = "sf_body"
    /\ \E num_clips \in 0..MaxClips :
          worker' = [worker EXCEPT ![w].pc = "sf80", ![w].attempt = 0, ![w].clips = num_clips]
    /\ jobs' = ThreadSafeStatusUpdate(jobs, worker[w].job, "completed", 100, FALSE)
    /\ UNCHANGED <<other_state, used, queue, api, started, stop_event, start_pc, pending_jobs,
                   projects, videos>>

\* split_fixed fails: {'status': 'error', 'error': str(e)}; raise.
SplitError(w) ==
    /\ worker[w].pc = "sf_body"
    /\ jobs' = ThreadSafeStatusUpdate(jobs, worker[w].job, "error", NoProgress, TRUE)
    /\ worker' = AfterError(w, SplitAttempts, "sf_enter")
    /\ UNCHANGED <<other_state, used, queue, api, started, stop_event, start_pc, pending_jobs,
                   projects, videos>>

\* update_job_progress(job['id'], 80, ...); video_ids = []
SplitProgress80(w) ==
    /\ worker[w].pc = "sf80"
    /\ jobs' = UpdateJobProgress(jobs, worker[w].job, 80)
    /\ worker' = [worker EXCEPT ![w].pc = "sf_create", ![w].video_ids = <<>>]
    /\ UNCHANGED <<other_state, used, queue, api, started, stop_event, start_pc, pending_jobs,
                   projects, videos>>

\* for data in clips_data: Video.create(..., filename=data['filename'],
\* parent_video_id=video_id, is_clip=1); video_ids.append(clip_video['id']).
\* The INSERT passes the foreign keys: the source and the project have rows.
SplitRegister(w) ==
    /\ worker[w].pc = "sf_create"
    /\ Len(worker[w].video_ids) < worker[w].clips
    /\ ParentAllowed(videos, worker[w].video_id)
    /\ ProjectExists(projects, worker[w].video.project_id)
    /\ \E v \in FreshVideoIds(videos) :
          /\ videos' = [videos EXCEPT ![v] =
                          NewVideo(worker[w].video.project_id, "part",
                                   PartName(worker[w].video.filename, Len(worker[w].video_ids) + 1),
                                   worker[w].video_id, 1)]
          /\ worker' = [worker EXCEPT ![w].video_ids = Append(@, v)]
    /\ UNCHANGED <<other_state, jobs, used, queue, api, started, stop_event, start_pc, pending_jobs,
                   projects>>

\* the INSERT of Video.create raises (execute_write re-raises what SQLite
\* raises once its retries are used up): the handler raises, nothing is
\* undone.
SplitRegisterError(w) ==
    /\ worker[w].pc = "sf_create"
    /\ Len(worker[w].video_ids) < worker[w].clips
    /\ worker' = SetPc(w, "except")
    /\ UNCHANGED <<other_state, jobs, used, queue, api, started, stop_event, start_pc, pending_jobs,
                   projects, videos>>

\* the loop is over: return {'video_ids': video_ids, 'count': len(video_ids)}
SplitReturn(w) ==
    /\ worker[w].pc = "sf_create"
    /\ Len(worker[w].video_ids) = worker[w].clips
    /\ worker' = SetPc(w, "done")
    /\ UNCHANGED <<other_state, jobs, used, queue, api, started, stop_event, start_pc, pending_jobs,
                   projects, videos>>

\* ------------------------------------------- process_job, after the handler
\* update_status(completed, progress=100, output_data=result)
ProcessComplete(w) ==
    /\ worker[w].pc = "done"
    /\ jobs' = UpdateStatus(jobs, worker[w].job, STATUS_COMPLETED, 100, FALSE)
    /\ worker' = Release(w)
    /\ UNCHANGED <<other_state, projects, videos, used, queue, api, started, stop_event, start_pc, pending_jobs>>

\* except: update_status(failed, error_message=error_msg)
ProcessFail(w) ==
    /\ worker[w].pc = "except"
    /\ jobs' = UpdateStatus(jobs, worker[w].job, STATUS_FAILED, NoProgress, TRUE)
    /\ worker' = SetPc(w, "reread")
    /\ UNCHANGED <<other_state, projects, videos, used, queue, api, started, stop_event, start_pc, pending_jobs>>

\* except: job = Job.get_by_id(job_id); retry_count < max_retries?
ProcessCheckRetry(w) ==
    /\ worker[w].pc = "reread"
    /\ worker' = IF RetryAllowed(jobs, worker[w].job) THEN SetPc(w, "retry") ELSE Release(w)
    /\ UNCHANGED <<other_state, projects, videos, jobs, used, queue, api, started, stop_event, start_pc, pending_jobs>>

\* Job.retry called by the worker: its own get_by_id and check.
ProcessRetryRead(w) ==
    /\ worker[w].pc = "retry"
    /\ worker' = IF RetryAllowed(jobs, worker[w].job) THEN SetPc(w, "retry_write") ELSE Release(w)
    /\ UNCHANGED <<other_state, projects, videos, jobs, used, queue, api, started, stop_event, start_pc, pending_jobs>>

\* Job.retry called by the worker: the UPDATE. Nothing is put on the queue.
ProcessRetryWrite(w) ==
    /\ worker[w].pc = "retry_write"
    /\ jobs' = RetryWrite(jobs, worker[w].job)
    /\ worker' = Release(w)
    /\ UNCHANGED <<other_state, projects, videos, used, queue, api, started, stop_event, start_pc, pending_jobs>>

\* -------------------------------------------------------------------- Next
HandlerStep(w) ==
    \/ HandlerProgress10(w)
    \/ DownloadEnter(w)
    \/ DownloadOk(w)
    \/ DownloadError(w)
    \/ HandlerProgress60(w)
    \/ ConvertEnter(w)
    \/ ConvertOk(w)
    \/ ConvertError(w)
    \/ HandlerProgress95(w)
    \/ DownloadCreateVideo(w)

SplitStep(w) ==
    \/ SplitLoad(w)
    \/ SplitProgress10(w)
    \/ SplitEnter(w)
    \/ SplitOk(w)
    \/ SplitError(w)
    \/ SplitProgress80(w)
    \/ SplitRegister(w)
    \/ SplitRegisterError(w)
    \/ SplitReturn(w)

\* JobWorker.run and process_job around the handler
QueueStep(w) ==
    \/ WorkerLoop(w)
    \/ WorkerGet(w)
    \/ WorkerTimeout(w)
    \/ ProcessLoad(w)
    \/ ProcessSetRunning(w)
    \/ ProcessComplete(w)
    \/ ProcessFail(w)
    \/ ProcessCheckRetry(w)
    \/ ProcessRetryRead(w)
    \/ ProcessRetryWrite(w)

WorkerStep(w) == QueueStep(w) \/ HandlerStep(w)

ApiStep(c) ==
    \/ ApiCreateProject(c)
    \/ ApiSubmitCreate(c)
    \/ ApiSubmitPut(c)
    \/ ApiCancelRead(c)
    \/ ApiCancelWrite(c)
    \/ ApiRetryRead(c)
    \/ ApiRetryWrite(c)
    \/ ApiRetryPut(c)
    \/ ApiDelete(c)

Next ==
    \/ \E w \in Workers : WorkerStep(w)
    \/ \E c \in Clients : ApiStep(c)
    \/ StartBegin
    \/ StartSelect
    \/ StartPut
    \/ Stop
    \/ Crash

Spec == Init /\ [][Next]_vars

\* ------------------------------------------------------------ shared notions
\* positions of a worker inside the handler it invoked
HandlerPcs == {"h10", "dl_enter", "dl_body", "h60", "cv_enter", "cv_body", "h95", "dl_video"}

\* the worker thread w took a step of its own
WorkerMoved(w) == worker'[w] # worker[w] /\ worker'[w].pc # "none"

\* API requests and workers that are in the middle of an operation on id
Requests(id) == {c \in Clients : api[c].op # "idle" /\ api[c].job = id}
Holders(id) == {w \in Workers : worker[w].job = id}

\* ------------------------------------------------------------------- C1
\* C1: a step that takes a job from completed, failed or cancelled to pending
\* or running is the UPDATE of Job.retry (status pending, retry_count + 1).
C1_TerminalOnlyReopenedByRetry ==
    [][\A id \in JobIds :
          (jobs[id].status \in Terminal /\ jobs'[id].status \in {STATUS_PENDING, STATUS_RUNNING})
          => jobs'[id] = RetryWrite(jobs, id)[id]]_vars

\* ------------------------------------------------------------------- C2
\* C2: when the handler has returned or raised and the row says cancelled
\* (a cancel succeeded while the handler ran), the worker's closing status
\* write leaves the job cancelled.
C2_CancelledWhileRunningEndsCancelled ==
    [][\A w \in Workers :
          (/\ worker[w].pc \in {"done", "except"}
           /\ worker[w].type \in JOB_HANDLERS
           /\ jobs[worker[w].job].status = STATUS_CANCELLED
           /\ WorkerMoved(w))
          => jobs'[worker[w].job].status = STATUS_CANCELLED]_vars

\* ------------------------------------------------------------------- C3
\* C3: a job cancelled while still pending (cancelled, never started) is
\* dropped by the worker that popped its id: the worker does not set it
\* running and invokes no handler, wherever the cancel fell between the
\* worker's reload, status check and set-running.
C3_CancelledPendingIsDropped ==
    [][\A w \in Workers :
          (/\ worker[w].pc \in {"load", "setrun"}
           /\ jobs[worker[w].job].status = STATUS_CANCELLED
           /\ jobs[worker[w].job].started_at = 0
           /\ WorkerMoved(w))
          => (/\ jobs'[worker[w].job].status = STATUS_CANCELLED
              /\ worker'[w].pc \notin HandlerPcs \cup {"setrun", "except"})]_vars

\* ------------------------------------------------------------------- C4
\* C4: no step changes a job that is completed or failed into cancelled.
C4_FinishedNeverCancelled ==
    [][\A id \in JobIds :
          jobs[id].status \in {STATUS_COMPLETED, STATUS_FAILED}
          => jobs'[id].status # STATUS_CANCELLED]_vars

\* ------------------------------------------------------------------- C5
\* C5: in every reachable state every job has retry_count <= max_retries.
C5_RetryCountBounded ==
    \A id \in JobIds : Exists(jobs, id) => jobs[id].retry_count <= jobs[id].max_retries

\* ------------------------------------------------------------------- C6
\* C6: on the failure path the worker writes status failed with the error
\* message; when retry_count < max_retries its Job.retry then writes status
\* pending with retry_count + 1 and a cleared error; none of these steps puts
\* anything on the queue, and an id is only ever put by submit_job, by the
\* reload in start() or by the requeue of the retry API.
WorkerFailurePath(w) ==
    LET id == worker[w].job
    IN /\ (worker[w].pc = "except" /\ WorkerMoved(w))
            => /\ worker'[w].pc = "reread"
               /\ queue' = queue
               /\ Exists(jobs, id) => /\ jobs'[id].status = STATUS_FAILED
                                      /\ jobs'[id].error_message
                                      /\ jobs'[id].retry_count = jobs[id].retry_count
       /\ (worker[w].pc = "reread" /\ WorkerMoved(w))
            => /\ jobs' = jobs /\ queue' = queue
               /\ worker'[w].pc = "retry" <=> RetryAllowed(jobs, id)
       /\ (worker[w].pc = "retry" /\ WorkerMoved(w))
            => /\ jobs' = jobs /\ queue' = queue
               /\ worker'[w].pc = "retry_write" <=> RetryAllowed(jobs, id)
       /\ (worker[w].pc = "retry_write" /\ WorkerMoved(w))
            => /\ worker'[w].pc = "idle"
               /\ queue' = queue
               /\ Exists(jobs, id) => /\ jobs'[id].status = STATUS_PENDING
                                      /\ jobs'[id].retry_count = jobs[id].retry_count + 1
                                      /\ ~jobs'[id].error_message

OnlyQueuedByReloadOrRequeue(id) ==
    QueueCount(queue', id) > QueueCount(queue, id)
    => \/ start_pc = "put" /\ start_pc' # "load"
       \/ \E c \in Clients : /\ api[c].op \in {"submit", "requeue"}
                             /\ api[c].job = id
                             /\ api'[c].op = "idle"

C6_FailedThenRetriedNotRequeued ==
    [][/\ \A w \in Workers : WorkerFailurePath(w)
       /\ \A id \in JobIds : OnlyQueuedByReloadOrRequeue(id)]_vars

\* C6 witness: the worker has failed a job and retried it: the row is pending
\* with one retry and no error, it has run (completed_at is set), and its id
\* is neither on the queue nor held by any thread.
C6_Witness ==
    \E id \in JobIds :
        /\ jobs[id].status = STATUS_PENDING
        /\ jobs[id].retry_count = 1
        /\ ~jobs[id].error_message
        /\ jobs[id].completed_at # 0
        /\ QueueCount(queue, id) = 0
        /\ Holders(id) = {} /\ Requests(id) = {}
        /\ started /\ ~stop_event

\* ------------------------------------------------------------------- C7
\* The scenario of C7: a project is created, jobs are submitted and the queue
\* is started; nobody cancels, retries, deletes, stops or kills the process.
\* Threads that can take a step eventually do.
RetryNext ==
    \/ \E w \in Workers : WorkerStep(w)
    \/ \E c \in Clients : ApiCreateProject(c)
    \/ \E c \in Clients : ApiSubmitCreate(c)
    \/ \E c \in Clients : ApiSubmitPut(c)
    \/ StartBegin
    \/ StartSelect
    \/ StartPut

RetrySpec ==
    /\ Init
    /\ [][RetryNext]_vars
    /\ \A w \in Workers : WF_vars(WorkerStep(w))
    /\ \A c \in Clients : WF_vars(ApiSubmitPut(c))
    /\ WF_vars(StartBegin \/ StartSelect \/ StartPut)

\* C7: a download job whose url is unreachable (its handler fails on every
\* attempt) ends as failed with retry_count = max_retries = 3 and an error
\* message.
C7_FailingJobEndsFailed ==
    \A id \in JobIds :
        (jobs[id].type = "download" /\ ~jobs[id].url_ok /\ jobs[id].status = STATUS_PENDING)
        ~> (/\ jobs[id].status = STATUS_FAILED
            /\ jobs[id].retry_count = DefaultMaxRetries
            /\ jobs[id].error_message)

\* ------------------------------------------------------------------- C8
\* C8: the worker never retries a job whose type has no handler: no step of
\* the worker that popped it increases its retry_count or moves it to pending.
C8_NoHandlerNotRetried ==
    [][\A w \in Workers :
          (/\ worker[w].pc \in {"except", "reread", "retry", "retry_write"}
           /\ worker[w].type \notin JOB_HANDLERS
           /\ WorkerMoved(w))
          => /\ jobs'[worker[w].job].retry_count = jobs[worker[w].job].retry_count
             /\ jobs'[worker[w].job].status = STATUS_PENDING
                  => jobs[worker[w].job].status = STATUS_PENDING]_vars

\* ------------------------------------------------------------------- C9
\* C9: once start() has loaded the pending jobs, a pending row that has never
\* run and never been retried is on the queue exactly once, counting an id a
\* worker has popped but not yet set running and a put that submit_job or
\* the retry API is about to make.
Accounted(id) ==
    QueueCount(queue, id)
    + Cardinality({c \in Clients : api[c].op \in {"submit", "requeue"} /\ api[c].job = id})
    + Cardinality({w \in Workers : worker[w].job = id /\ worker[w].pc \in {"load", "setrun"}})

C9_PendingQueuedExactlyOnce ==
    started =>
        \A id \in JobIds :
            (/\ jobs[id].status = STATUS_PENDING
             /\ jobs[id].retry_count = 0
             /\ jobs[id].started_at = 0)
            => Accounted(id) = 1

\* ------------------------------------------------------------------ C10
\* A running row nobody works on: no worker holds its id, the id is not
\* queued and no API request on it is in flight (the state after a crash).
Orphaned(id) ==
    /\ jobs[id].status = STATUS_RUNNING
    /\ Holders(id) = {}
    /\ QueueCount(queue, id) = 0
    /\ Requests(id) = {}

\* what start() reads is exactly the pending rows, and it writes no row
StartLoadsOnlyPending ==
    /\ (start_pc = "load" /\ start_pc' # "load" /\ start_pc' # "none")
         => /\ \A i \in 1..Len(pending_jobs') : jobs[pending_jobs'[i][2]].status = STATUS_PENDING
            /\ \A id \in JobIds : jobs[id].status = STATUS_PENDING
                 => \E i \in 1..Len(pending_jobs') : pending_jobs'[i] = Entry(jobs, id)
    /\ (start_pc = "load" /\ start_pc' = "none" /\ started')
         => \A id \in JobIds : jobs[id].status # STATUS_PENDING
    /\ (start_pc' # start_pc \/ pending_jobs' # pending_jobs)
         => /\ jobs' = jobs
            /\ \A id \in JobIds :
                 QueueCount(queue', id) > QueueCount(queue, id)
                 => (pending_jobs # <<>> /\ Head(pending_jobs)[2] = id)

\* C10 as claimed: start() enqueues only pending rows, and an orphaned
\* running row is left as it is and off the queue by every step.
C10_OrphanStaysRunning ==
    [][/\ StartLoadsOnlyPending
       /\ \A id \in JobIds :
            Orphaned(id) => (jobs'[id] = jobs[id] /\ QueueCount(queue', id) = 0)]_vars

\* C10 amended: ... by every step except the DELETE of Job.delete, which
\* removes the row.
C10_OrphanStaysRunningUnlessDeleted ==
    [][/\ StartLoadsOnlyPending
       /\ \A id \in JobIds :
            Orphaned(id) => /\ jobs'[id] = jobs[id] \/ jobs'[id] = NoRow
                            /\ QueueCount(queue', id) = 0]_vars

\* C10 witness: after a crash the queue has been started again and a row
\* that was running with some progress is orphaned.
C10_Witness ==
    \E id \in JobIds :
        /\ Orphaned(id)
        /\ started
        /\ jobs[id].progress = 60
        /\ jobs[id].retry_count = 1

\* ------------------------------------------------------------------ C13
\* C13: in every state a running job has started_at; a completed, failed or
\* cancelled job has completed_at, and has started_at too unless it is
\* cancelled; and a job becomes cancelled without started_at only by a step
\* that finds it pending.
C13_TimestampsMatchStatus ==
    /\ [](\A id \in JobIds :
            /\ jobs[id].status = STATUS_RUNNING => jobs[id].started_at # 0
            /\ jobs[id].status \in Terminal => jobs[id].completed_at # 0
            /\ jobs[id].status \in {STATUS_COMPLETED, STATUS_FAILED} => jobs[id].started_at # 0)
    /\ [][\A id \in JobIds :
            (/\ jobs'[id].status = STATUS_CANCELLED
             /\ jobs'[id].started_at = 0
             /\ jobs[id].status # STATUS_CANCELLED)
            => jobs[id].status = STATUS_PENDING]_vars

\* C13 witness: a job cancelled directly from pending: cancelled, completed_at
\* set, started_at null.
C13_Witness ==
    \E id \in JobIds :
        /\ jobs[id].status = STATUS_CANCELLED
        /\ jobs[id].started_at = 0
        /\ jobs[id].completed_at # 0

\* ------------------------------------------------------------------ C14
\* C14: every write a worker makes between setting its job running and its
\* closing write (the handler's update_job_progress and the adapters'
\* thread_safe_status_update) leaves progress in 0..100 and not below the
\* stored value.
C14_ProgressMonotonicInAttempt ==
    [][\A w \in Workers :
          (/\ worker[w].pc \in HandlerPcs \cup {"done"}
           /\ WorkerMoved(w)
           /\ Exists(jobs, worker[w].job))
          => /\ jobs'[worker[w].job].progress \in 0..100
             /\ jobs'[worker[w].job].progress >= jobs[worker[w].job].progress]_vars

\* ------------------------------------------------------------------ C15
\* C15: in every state a completed job has progress 100.
C15_CompletedHasFullProgress ==
    \A id \in JobIds : jobs[id].status = STATUS_COMPLETED => jobs[id].progress = 100

\* C15 witness: the adapter has reported completed with progress 100 while the
\* handler is still running (before its update_job_progress(95)).
C15_Witness ==
    \E w \in Workers :
        /\ worker[w].pc = "h95"
        /\ jobs[worker[w].job].status = STATUS_COMPLETED
        /\ jobs[worker[w].job].progress = 100

\* ------------------------------------------------------------------ C16
\* the row Job.retry's UPDATE leaves
Retried(r) == [r EXCEPT !.status = STATUS_PENDING, !.retry_count = @ + 1,
                        !.error_message = FALSE]

\* C16: a call of Job.retry (by the retry route or by the worker) that finds
\* no row or retry_count >= max_retries changes nothing and goes no further;
\* otherwise its UPDATE leaves the row pending, without error message and with
\* retry_count one higher, every other column as it was; and retry_count
\* changes in no other way.
C16_RetryContract ==
    [][/\ \A c \in Clients :
            /\ (api[c].op = "idle" /\ api'[c].op = "retry")
                 => (jobs' = jobs /\ RetryAllowed(jobs, api'[c].job))
            /\ (api[c].op = "retry" /\ api'[c].op = "requeue")
                 => (/\ \A id \in JobIds \ {api[c].job} : jobs'[id] = jobs[id]
                     /\ Exists(jobs, api[c].job)
                          => jobs'[api[c].job] = Retried(jobs[api[c].job]))
       /\ \A w \in Workers :
            /\ (worker[w].pc = "retry" /\ WorkerMoved(w))
                 => (/\ jobs' = jobs
                     /\ worker'[w].pc = "retry_write" <=> RetryAllowed(jobs, worker[w].job)
                     /\ worker'[w].pc # "retry_write" => worker'[w].pc = "idle")
            /\ (worker[w].pc = "retry_write" /\ WorkerMoved(w))
                 => (/\ \A id \in JobIds \ {worker[w].job} : jobs'[id] = jobs[id]
                     /\ Exists(jobs, worker[w].job)
                          => jobs'[worker[w].job] = Retried(jobs[worker[w].job]))
       /\ \A id \in JobIds :
            (Exists(jobs', id) /\ jobs'[id].retry_count # jobs[id].retry_count)
            => (/\ Exists(jobs, id) => jobs'[id] = Retried(jobs[id])
                /\ \/ ~Exists(jobs, id)
                   \/ \E c \in Clients : api[c].op = "retry" /\ api[c].job = id
                                         /\ api'[c].op = "requeue"
                   \/ \E w \in Workers : worker[w].pc = "retry_write" /\ worker[w].job = id
                                         /\ WorkerMoved(w))]_vars

\* C16 witness: the retry route has retried a failed job that had never been
\* retried: the row is pending with retry_count 1 and the request is about to
\* requeue it.
C16_Witness ==
    \E c \in Clients :
        /\ api[c].op = "requeue"
        /\ jobs[api[c].job].status = STATUS_PENDING
        /\ jobs[api[c].job].retry_count = 1
        /\ ~jobs[api[c].job].error_message
        /\ jobs[api[c].job].completed_at # 0
        /\ jobs[api[c].job].started_at # 0

\* ------------------------------------------------------------------ C11
\* The restart scenario: three pending download jobs were submitted with
\* priorities 0, 10 and 5 (in this order, under any ids) and the process was
\* killed before a worker popped; a new process is constructed and started.
RestartPriorities == <<0, 10, 5>>
RestartWorkers == 2

RestartInit ==
    /\ \E ids \in [1..Len(RestartPriorities) -> 1..Len(RestartPriorities)] :
          /\ \A i, k \in DOMAIN ids : i # k => ids[i] # ids[k]
          /\ jobs = [id \in 1..Len(RestartPriorities) |->
                       LET k == CHOOSE k \in DOMAIN ids : ids[k] = id
                       IN NewRow("download", RestartPriorities[k], 1, 0, TRUE, k)]
    /\ used = 1..Len(RestartPriorities)
    /\ queue = EmptyBag
    /\ worker = [w \in 1..RestartWorkers |-> IdleWorker]
    /\ api = [c \in Clients |-> IdleClient]
    /\ started = FALSE
    /\ stop_event = FALSE
    /\ start_pc = "none"
    /\ pending_jobs = <<>>
    /\ projects = [p \in 1..MaxProjects |-> NewProject("a")]
    /\ videos = [v \in 1..Len(RestartPriorities) |-> NoVideo]
    /\ OtherInit

RestartNext ==
    \/ StartBegin
    \/ StartSelect
    \/ StartPut
    \/ \E w \in 1..RestartWorkers : WorkerStep(w)

RestartSpec == RestartInit /\ [][RestartNext]_vars

\* the worker w pops an entry in this step (job_queue.get returns)
Pops(w) == worker[w].pc = "waiting" /\ worker'[w].pc = "load"

\* the job has been popped since the process started: a worker holds it, or
\* it has left pending, or it has run
HasBeenPopped(id) ==
    \/ jobs[id].status # STATUS_PENDING
    \/ jobs[id].started_at # 0
    \/ \E w \in DOMAIN worker : worker[w].job = id

\* C11: whenever a worker pops, no job id on the queue has a higher priority
\* than the job it receives; and in the restart scenario every job of higher
\* priority has been popped before (the pops come in the order 10, 5, 0).
C11_PopsHighestPriority ==
    [][\A w \in DOMAIN worker :
          Pops(w) =>
             /\ \A f \in BagToSet(queue) :
                   jobs[f[2]].priority <= jobs[worker'[w].job].priority
             /\ \A k \in DOMAIN jobs :
                   jobs[k].priority > jobs[worker'[w].job].priority => HasBeenPopped(k)]_vars

\* C11 witness: a worker has just popped the priority-10 job while the jobs
\* of priority 5 and 0 are both on the queue.
C11_Witness ==
    \E w \in DOMAIN worker :
        /\ worker[w].pc = "load"
        /\ jobs[worker[w].job].priority = 10
        /\ \A k \in DOMAIN jobs \ {worker[w].job} :
              QueueCount(queue, k) = 1 /\ ~HasBeenPopped(k)

\* ------------------------------------------------------------------ C12
\* The submission scenario: the queue has been started (as the application
\* does when it boots); then A (priority 0), B (priority 5) and C (priority 0)
\* are submitted in this order, under any ids, as downloads of reachable urls.
\* The worker pops whenever it is free, also only after all three are queued.
SubmitPriorities == <<0, 5, 0>>

SubmitInit ==
    /\ jobs = [id \in 1..Len(SubmitPriorities) |-> NoRow]
    /\ used = {}
    /\ queue = EmptyBag
    /\ worker = [w \in Workers |-> IdleWorker]
    /\ api = [c \in Clients |-> IdleClient]
    /\ started = FALSE
    /\ stop_event = FALSE
    /\ start_pc = "none"
    /\ pending_jobs = <<>>
    /\ projects = [p \in 1..MaxProjects |-> NoProject]
    /\ videos = [v \in 1..Len(SubmitPriorities) |-> NoVideo]
    /\ OtherInit

\* POST /download with the next priority of the scenario
ScenarioSubmitCreate(c) ==
    /\ Cardinality(used) < Len(SubmitPriorities)
    /\ started
    /\ SubmitCreate(c, {"download"}, {SubmitPriorities[Cardinality(used) + 1]})
    /\ \A id \in DOMAIN jobs : Exists(jobs', id) => jobs'[id].url_ok

SubmitNext ==
    \/ \E c \in Clients : ApiCreateProject(c)
    \/ \E c \in Clients : ScenarioSubmitCreate(c)
    \/ \E c \in Clients : ApiSubmitPut(c)
    \/ StartBegin
    \/ StartSelect
    \/ \E w \in Workers : WorkerStep(w)

SubmitSpec == SubmitInit /\ [][SubmitNext]_vars

\* C12: whenever a worker pops, the job it receives was created no later than
\* any queued job of the same priority (FIFO within a priority).
C12_FifoWithinPriority ==
    [][\A w \in DOMAIN worker :
          Pops(w) =>
             \A f \in BagToSet(queue) :
                jobs[f[2]].priority = jobs[worker'[w].job].priority
                => jobs[worker'[w].job].created_at <= jobs[f[2]].created_at]_vars

\* ------------------------------------------------------- the split scenario
\* A project holds one downloaded video; split-fixed jobs are submitted for
\* it to a queue that is started at some moment; the source video can be
\* soft-deleted.
SplitInit ==
    /\ jobs = [id \in 1..SplitJobs |-> NoRow]
    /\ used = {}
    /\ queue = EmptyBag
    /\ worker = [w \in Workers |-> IdleWorker]
    /\ api = [c \in Clients |-> IdleClient]
    /\ started = FALSE
    /\ stop_event = FALSE
    /\ start_pc = "none"
    /\ pending_jobs = <<>>
    /\ projects = [p \in 1..MaxProjects |-> NewProject("a")]
    /\ videos = [v \in 1..SplitVideos |->
                   IF v = 1 THEN NewVideo(1, "a", UuidName(1), 0, 0) ELSE NoVideo]
    /\ OtherInit

\* POST .../videos/<video_id>/split-fixed: Video.get_by_id finds the video,
\* then submit_job's Job.create (the put is ApiSubmitPut).
ApiSubmitSplit(c) ==
    /\ api[c].op = "idle"
    /\ \E id \in DOMAIN jobs \ used, v \in DOMAIN videos, p \in DOMAIN projects :
          /\ VideoGetById(videos, v) # NoVideo
          /\ ProjectExists(projects, p)
          /\ jobs' = [jobs EXCEPT ![id] = NewRow("split_fixed", 0, p, v, FALSE,
                                                 Cardinality(used) + 1)]
          /\ used' = used \cup {id}
          /\ api' = [api EXCEPT ![c] = [op |-> "submit", job |-> id, priority |-> 0]]
    /\ UNCHANGED <<other_state, queue, worker, started, stop_event, start_pc, pending_jobs,
                   projects, videos>>

\* DELETE .../videos/<video_id> -> Video.delete: the soft delete.
ApiDeleteVideo(c) ==
    /\ api[c].op = "idle"
    /\ \E v \in DOMAIN videos :
          /\ VideoGetById(videos, v) # NoVideo
          /\ videos' = VideoDelete(videos, v)
    /\ UNCHANGED <<other_state, jobs, used, queue, worker, api, started, stop_event, start_pc,
                   pending_jobs, projects>>

SplitNext ==
    \/ \E c \in Clients : ApiSubmitSplit(c)
    \/ \E c \in Clients : ApiSubmitPut(c)
    \/ \E c \in Clients :
          ApiDeleteVideo(c) /\ \A v \in DOMAIN videos : videos[v].is_clip = 1 => videos'[v] = videos[v]
    \/ StartBegin
    \/ StartSelect
    \/ StartPut
    \/ \E w \in Workers : QueueStep(w)
    \/ \E w \in Workers : SplitStep(w)

SplitSpec == SplitInit /\ [][SplitNext]_vars

SplitPcs == {"sf_load", "sf10", "sf_enter", "sf_body", "sf80", "sf_create"}

\* the ids in the handler's video_ids list
Registered(w) == {worker[w].video_ids[i] : i \in 1..Len(worker[w].video_ids)}

\* ------------------------------------------------------------------ C17
\* C17: when the handler of an attempt raises, no video row that this attempt
\* registered exists; when it returns, the closing write leaves the job
\* completed and every row it registered exists.
C17_NoPartialSuccess ==
    [][\A w \in DOMAIN worker :
          /\ (worker[w].pc \in SplitPcs /\ worker'[w].pc = "except")
               => \A v \in Registered(w) : ~VideoExists(videos', v)
          /\ (worker[w].pc = "done" /\ WorkerMoved(w))
               => /\ jobs'[worker[w].job].status = STATUS_COMPLETED
                  /\ \A v \in Registered(w) : VideoExists(videos', v)]_vars

\* ------------------------------------------------------------------ C18
\* C18: in every state no two video rows name the same output file (every
\* handler invocation wrote and registered files under names of its own).
C18_DistinctOutputFiles ==
    \A v1, v2 \in DOMAIN videos :
        (VideoExists(videos, v1) /\ VideoExists(videos, v2) /\ v1 # v2)
        => videos[v1].filename # videos[v2].filename

\* --------------------------------------------------- the data access layer
\* The calls of the Project and Video models, each one statement, made in
\* any order on any ids by the routes and by tests.
CrudProjects == 2
CrudVideos == 2
Titles == {"a", "b"}

CrudInit ==
    /\ jobs = [id \in JobIds |-> NoRow]
    /\ used = {}
    /\ queue = EmptyBag
    /\ worker = [w \in Workers |-> IdleWorker]
    /\ api = [c \in Clients |-> IdleClient]
    /\ started = FALSE
    /\ stop_event = FALSE
    /\ start_pc = "none"
    /\ pending_jobs = <<>>
    /\ projects = [p \in 1..CrudProjects |-> NoProject]
    /\ videos = [v \in 1..CrudVideos |-> NoVideo]
    /\ OtherInit

queue_state == <<jobs, used, queue, worker, api, started, stop_event, start_pc, pending_jobs>>

ProjectUpdateStep ==
    /\ \E p \in DOMAIN projects, name \in Titles : projects' = ProjectUpdate(projects, p, name)
    /\ UNCHANGED <<other_state, queue_state, videos>>

\* A faulty soft delete of a project that also soft-deletes its videos.
ProjectDeleteStepCascading ==
    /\ \E p \in DOMAIN projects :
          /\ projects' = ProjectDelete(projects, p)
          /\ videos' = VideoDeleteMultiple(videos, VideosOfProject(videos, p))
    /\ UNCHANGED <<other_state, queue_state>>

ProjectDeleteStep ==
    /\ \E p \in DOMAIN projects : projects' = ProjectDelete(projects, p)
    /\ UNCHANGED <<other_state, queue_state, videos>>

ProjectRestoreStep ==
    /\ \E p \in DOMAIN projects : projects' = ProjectRestore(projects, p)
    /\ UNCHANGED <<other_state, queue_state, videos>>

\* Video.create for a project that has a row (FOREIGN KEY), as upload and
\* download register a video
VideoCreateStep ==
    /\ \E v \in FreshVideoIds(videos), p \in DOMAIN projects :
          /\ ProjectExists(projects, p)
          /\ videos' = [videos EXCEPT ![v] = NewVideo(p, "a", UuidName(v), 0, 0)]
    /\ UNCHANGED <<other_state, queue_state, projects>>

VideoUpdateStep ==
    /\ \E v \in DOMAIN videos, title \in Titles : videos' = VideoUpdate(videos, v, title)
    /\ UNCHANGED <<other_state, queue_state, projects>>

VideoDeleteStep ==
    /\ \E v \in DOMAIN videos : videos' = VideoDelete(videos, v)
    /\ UNCHANGED <<other_state, queue_state, projects>>

VideoDeleteMultipleStep ==
    /\ \E ids \in SUBSET DOMAIN videos : videos' = VideoDeleteMultiple(videos, ids)
    /\ UNCHANGED <<other_state, queue_state, projects>>

VideoRestoreStep ==
    /\ \E v \in DOMAIN videos : videos' = VideoRestore(videos, v)
    /\ UNCHANGED <<other_state, queue_state, projects>>

CrudNext ==
    \/ \E c \in Clients : ApiCreateProject(c)
    \/ ProjectUpdateStep
    \/ ProjectDeleteStep
    \/ ProjectRestoreStep
    \/ VideoCreateStep
    \/ VideoUpdateStep
    \/ VideoDeleteStep
    \/ VideoDeleteMultipleStep
    \/ VideoRestoreStep

CrudSpec == CrudInit /\ [][CrudNext]_vars

\* ------------------------------------------------------------------ C19
\* C19: in every state Video.get_by_project(p) and Project.get_all(), called
\* without include_deleted, return no row with is_deleted = 1 and return
\* every row that is not deleted, and get_by_id returns nothing for a
\* soft-deleted project or video.
C19_SoftDeletedInvisible ==
    /\ \A p \in DOMAIN projects :
          /\ \A r \in VideoGetByProject(videos, p, FALSE) : r.is_deleted # 1
          /\ \A v \in DOMAIN videos :
                (VideoExists(videos, v) /\ videos[v].project_id = p /\ videos[v].is_deleted = 0)
                => videos[v] \in VideoGetByProject(videos, p, FALSE)
          /\ projects[p].is_deleted = 1 => ProjectGetById(projects, p) = NoProject
    /\ \A r \in ProjectGetAll(projects, FALSE) : r.is_deleted # 1
    /\ \A v \in DOMAIN videos : videos[v].is_deleted = 1 => VideoGetById(videos, v) = NoVideo

\* C19 witness: a project holds a soft-deleted video that was updated and a
\* visible one, and another project is soft-deleted.
C19_Witness ==
    \E p, q \in DOMAIN projects, v, u \in DOMAIN videos :
        /\ projects[p].is_deleted = 0 /\ ProjectExists(projects, p)
        /\ projects[q].is_deleted = 1
        /\ videos[v].project_id = p /\ videos[v].is_deleted = 1 /\ videos[v].title = "b"
        /\ videos[u].project_id = p /\ videos[u].is_deleted = 0 /\ VideoExists(videos, u)

\* ------------------------------------------------------------------ C20
\* the rows agree in every column but is_deleted and updated_at
SameBut(r, s) == [r EXCEPT !.is_deleted = 0, !.updated_at = 0]
                 = [s EXCEPT !.is_deleted = 0, !.updated_at = 0]

queue_tables == <<jobs, used, queue, worker, api, started, stop_event, start_pc,
                  pending_jobs, projects, videos>>

\* Job.create(input_data=x): input_json = json.dumps(input_data) if input_data else None
JobCreateDoc ==
    /\ \E x \in Dicts :
          docs' = [docs EXCEPT !["input_data"] =
                     [col |-> DumpsIfAny(x), written |-> TRUE, arg |-> x]]
    /\ UNCHANGED <<queue_tables, captions, whisper_models, constructions, db_lock, users, srt, files>>

\* Job.update_status(output_data=x): the column is in the UPDATE only
\* `if output_data:`
JobUpdateStatusDoc ==
    /\ \E x \in Dicts :
          docs' = [docs EXCEPT !["output_data"] =
                     [col |-> IF TruthyDict(x) THEN Dumps(x) ELSE @.col,
                      written |-> TRUE, arg |-> x]]
    /\ UNCHANGED <<queue_tables, captions, whisper_models, constructions, db_lock, users, srt, files>>

\* Caption.create(style=x): style_json = json.dumps(style) if style else None
CaptionCreateDoc ==
    /\ \E x \in Dicts :
          docs' = [docs EXCEPT !["style"] =
                     [col |-> DumpsIfAny(x), written |-> TRUE, arg |-> x]]
    /\ UNCHANGED <<queue_tables, captions, whisper_models, constructions, db_lock, users, srt, files>>

\* Caption.update(style=x): updates['style'] = json.dumps(kwargs['style'])
CaptionUpdateDoc ==
    /\ docs["style"].written
    /\ \E x \in Dicts :
          docs' = [docs EXCEPT !["style"] =
                     [col |-> Dumps(x), written |-> TRUE, arg |-> x]]
    /\ UNCHANGED <<queue_tables, captions, whisper_models, constructions, db_lock, users, srt, files>>

JsonNext ==
    \/ JobCreateDoc
    \/ JobUpdateStatusDoc
    \/ CaptionCreateDoc
    \/ CaptionUpdateDoc

JsonSpec == Init /\ [][JsonNext]_vars

\* ------------------------------------------------------------------ C21
\* C21: every JSON field that was written with a dict x (the empty dict
\* included) is read back equal to x.
C21_JsonRoundTrip ==
    \A f \in DocFields :
        docs[f].written => ReadField(docs[f].col) = PyDict(docs[f].arg)

\* ------------------------------------------------------------ trim requests
\* The scenario of C22: clients post trim requests for a video with any
\* start_time and end_time; submit_job creates the row and puts the id.
TrimJobs == 3
TrimClients == 2
MaxTime == 2

TrimInit ==
    /\ jobs = [id \in 1..TrimJobs |-> NoRow]
    /\ used = {}
    /\ queue = EmptyBag
    /\ worker = [w \in Workers |-> IdleWorker]
    /\ api = [c \in 1..TrimClients |-> IdleClient]
    /\ started = FALSE
    /\ stop_event = FALSE
    /\ start_pc = "none"
    /\ pending_jobs = <<>>
    /\ projects = [p \in 1..MaxProjects |-> NewProject("a")]
    /\ videos = [v \in 1..MaxVideos |-> NewVideo(1, "a", UuidName(1), 0, 0)]
    /\ OtherInit

\* POST .../videos/<video_id>/trim: start and end are read from the body,
\* Video.get_by_id finds the video, then submit_job's Job.create with
\* input_data = {start_time, end_time, title} (the put is ApiSubmitPut).
ApiSubmitTrim(c) ==
    /\ api[c].op = "idle"
    /\ \E id \in DOMAIN jobs \ used, v \in DOMAIN videos, p \in DOMAIN projects,
          start \in 0..MaxTime, end \in 0..MaxTime :
          /\ VideoGetById(videos, v) # NoVideo
          /\ ProjectExists(projects, p)
          /\ jobs' = [jobs EXCEPT ![id] = NewRow("trim", 0, p, v, FALSE,
                                                 Cardinality(used) + 1)]
          /\ used' = used \cup {id}
          /\ api' = [api EXCEPT ![c] = [op |-> "submit", job |-> id, priority |-> 0,
                                        start_time |-> start, end_time |-> end]]
    /\ UNCHANGED <<other_state, queue, worker, started, stop_event, start_pc, pending_jobs,
                   projects, videos>>

TrimNext ==
    \/ \E c \in DOMAIN api : ApiSubmitTrim(c)
    \/ \E c \in DOMAIN api : ApiSubmitPut(c)

TrimSpec == TrimInit /\ [][TrimNext]_vars

\* ------------------------------------------------------------------ C22
\* C22: no trim request with end_time <= start_time creates a job row or
\* puts an id on the queue: every request that gets as far as Job.create
\* and the put has end_time > start_time.
C22_BadTrimRejected ==
    [][\A c \in DOMAIN api :
          /\ (api[c].op = "idle" /\ api'[c].op = "submit")
                => api'[c].end_time > api'[c].start_time
          /\ (api[c].op = "submit" /\ queue' # queue)
                => api[c].end_time > api[c].start_time]_vars

\* ------------------------------------------------------------------ C23
\* C23: once started_at is written no later step changes it, and once
\* completed_at is written no later step changes it, as long as the row
\* exists: progress updates of a running job and further terminal writes
\* leave both columns as they are.
C23_TimestampsWrittenOnce ==
    [][\A id \in DOMAIN jobs :
          (Exists(jobs, id) /\ Exists(jobs', id))
          => /\ jobs[id].started_at # 0 => jobs'[id].started_at = jobs[id].started_at
             /\ jobs[id].completed_at # 0 => jobs'[id].completed_at = jobs[id].completed_at]_vars

\* ------------------------------------------------------------------ C24
\* C24: Job.retry passes its check only for a job in a terminal state, and
\* its UPDATE and the put that follows never act on a job that is pending
\* or running: such a job keeps its status and retry_count and gets no new
\* queue entry.
C24_RetryOnlyFromTerminal ==
    [][\A c \in DOMAIN api :
          /\ (api[c].op = "idle" /\ api'[c].op = "retry")
                => jobs[api'[c].job].status \in Terminal
          /\ (api[c].op = "retry" /\ api'[c].op = "requeue"
                /\ jobs[api[c].job].status \in {STATUS_PENDING, STATUS_RUNNING})
                => /\ jobs'[api[c].job].status = jobs[api[c].job].status
                   /\ jobs'[api[c].job].retry_count = jobs[api[c].job].retry_count]_vars

\* ------------------------------------------------------------ video lineage
\* The scenario of C25 and C26: a split job on a source video registers its
\* clips while videos are hard-deleted (Video.delete(id, hard_delete=True))
\* and their parent_video_id is edited (PUT .../videos/<id> -> Video.update).
LineageVideos == 3

LineageInit ==
    /\ jobs = [id \in JobIds |-> NoRow]
    /\ used = {}
    /\ queue = EmptyBag
    /\ worker = [w \in Workers |-> IdleWorker]
    /\ api = [c \in Clients |-> IdleClient]
    /\ started = FALSE
    /\ stop_event = FALSE
    /\ start_pc = "none"
    /\ pending_jobs = <<>>
    /\ projects = [p \in 1..MaxProjects |-> NewProject("a")]
    /\ videos = [v \in 1..LineageVideos |->
                   IF v = 1 THEN NewVideo(1, "a", UuidName(1), 0, 0) ELSE NoVideo]
    /\ OtherInit

\* the kwargs an update can be called with; the parent can be NULL (0), any
\* id of the table, or an id that no row has
VideoKwargs(V) ==
    [title : {Missing, "b"},
     parent_video_id : {MissingInt, 0} \cup DOMAIN V \cup {Cardinality(DOMAIN V) + 1},
     project_id : {MissingInt, 2},
     is_deleted : {MissingInt, 1}]

\* Video.delete(video_id, hard_delete=True): one DELETE, with its cascades
VideoHardDeleteStep ==
    /\ \E v \in DOMAIN videos :
          /\ VideoExists(videos, v)
          /\ videos' = VideosRemove(videos, {v})
          /\ jobs' = JobsCascade(jobs, {v}, {})
          /\ captions' = CaptionsCascade(captions, {v})
    /\ UNCHANGED <<used, queue, worker, api, started, stop_event, start_pc, pending_jobs,
                   projects, docs, whisper_models, constructions, db_lock, users, srt, files>>

\* Video.update(video_id, parent_video_id=...) on a video that is not a clip
VideoSetParentStep ==
    /\ \E v \in DOMAIN videos, kwargs \in VideoKwargs(videos) :
          /\ videos[v].is_clip = 0
          /\ kwargs.title = Missing /\ kwargs.project_id = MissingInt
          /\ kwargs.is_deleted = MissingInt
          /\ videos' = VideoUpdateKwargs(videos, v, kwargs)
    /\ UNCHANGED <<other_state, queue_state, projects>>

LineageNext ==
    \/ \E c \in Clients : ApiSubmitSplit(c)
    \/ \E c \in Clients : ApiSubmitPut(c)
    \/ VideoHardDeleteStep
    \/ VideoSetParentStep
    \/ StartBegin
    \/ StartSelect
    \/ StartPut
    \/ \E w \in Workers : QueueStep(w)
    \/ \E w \in Workers : SplitStep(w)

LineageSpec == LineageInit /\ [][LineageNext]_vars

\* ------------------------------------------------------------------ C25
\* C25: in every state each video with a parent_video_id that is not NULL
\* points at a row of the videos table, and every step that removes a video
\* row leaves the rows that pointed at it with parent_video_id NULL, also
\* while the split handler is registering clips of that video.
C25_ParentExists ==
    /\ [](\A v \in DOMAIN videos :
             (VideoExists(videos, v) /\ videos[v].parent_video_id # 0)
             => /\ videos[v].parent_video_id \in DOMAIN videos
                /\ VideoExists(videos, videos[v].parent_video_id))
    /\ [][\A v, u \in DOMAIN videos :
             (VideoExists(videos, v) /\ ~VideoExists(videos', v)
                /\ videos[u].parent_video_id = v /\ VideoExists(videos', u))
             => videos'[u].parent_video_id = 0]_vars

\* C25 witness: the source was hard-deleted while the handler was between
\* two clips: the clip it registered is still there, with a NULL parent.
C25_Witness ==
    \E w \in DOMAIN worker, u \in DOMAIN videos :
        /\ worker[w].pc = "sf_create"
        /\ Len(worker[w].video_ids) = 1 /\ worker[w].clips = 2
        /\ u = worker[w].video_ids[1]
        /\ VideoExists(videos, u) /\ videos[u].is_clip = 1
        /\ videos[u].parent_video_id = 0
        /\ ~VideoExists(videos, worker[w].video_id)

\* ------------------------------------------------------------------ C26
\* the videos reached from v by following parent_video_id at most n times
RECURSIVE Ancestors(_, _, _)
Ancestors(V, v, n) ==
    IF n = 0 \/ V[v].parent_video_id = 0 \/ V[v].parent_video_id \notin DOMAIN V THEN {}
    ELSE {V[v].parent_video_id} \cup Ancestors(V, V[v].parent_video_id, n - 1)

\* C26: following parent_video_id from a video never leads back to it.
C26_LineageAcyclic ==
    \A v \in DOMAIN videos :
        VideoExists(videos, v) => v \notin Ancestors(videos, v, Cardinality(DOMAIN videos))

\* ------------------------------------------------------- the store, by kwargs
\* The scenario of C27 and C28: the calls of the data access layer, with
\* update called with any keyword arguments, on tables that also hold jobs
\* and captions.
StoreProjects == 2
StoreVideos == 1

StoreInit ==
    /\ jobs = [id \in JobIds |-> NoRow]
    /\ used = {}
    /\ queue = EmptyBag
    /\ worker = [w \in Workers |-> IdleWorker]
    /\ api = [c \in Clients |-> IdleClient]
    /\ started = FALSE
    /\ stop_event = FALSE
    /\ start_pc = "none"
    /\ pending_jobs = <<>>
    /\ projects = [p \in 1..StoreProjects |-> NoProject]
    /\ videos = [v \in 1..StoreVideos |-> NoVideo]
    /\ OtherInit

ProjectKwargs ==
    [name : {Missing, "b"}, is_deleted : {MissingInt, 1}, project_id : {MissingInt, 2}]

\* Project.create(name)
ProjectCreateStep ==
    /\ \E p \in FreshProjectIds(projects) :
          projects' = [projects EXCEPT ![p] = NewProject("a")]
    /\ UNCHANGED <<other_state, queue_state, videos>>

\* Project.update(project_id, **kwargs)
ProjectUpdateKwargsStep ==
    /\ \E p \in DOMAIN projects, kwargs \in ProjectKwargs :
          projects' = ProjectUpdateKwargs(projects, p, kwargs)
    /\ UNCHANGED <<other_state, queue_state, videos>>

\* Project.delete(project_id, hard_delete=True): one DELETE, with its cascades
ProjectHardDeleteStep ==
    /\ \E p \in DOMAIN projects :
          /\ ProjectExists(projects, p)
          /\ LET gone == VideosOfProject(videos, p)
             IN /\ projects' = [projects EXCEPT ![p] = NoProject]
                /\ videos' = VideosRemove(videos, gone)
                /\ jobs' = JobsCascade(jobs, gone, {p})
                /\ captions' = CaptionsCascade(captions, gone)
    /\ UNCHANGED <<used, queue, worker, api, started, stop_event, start_pc, pending_jobs,
                   docs, whisper_models, constructions, db_lock, users, srt, files>>

\* Video.update(video_id, **kwargs)
VideoUpdateKwargsStep ==
    /\ \E v \in DOMAIN videos, kwargs \in VideoKwargs(videos) :
          videos' = VideoUpdateKwargs(videos, v, kwargs)
    /\ UNCHANGED <<other_state, queue_state, projects>>

\* Job.create(job_type, project_id, video_id): the ids must name rows
JobCreateStep ==
    /\ \E id \in DOMAIN jobs \ used, p \in DOMAIN projects, v \in DOMAIN videos :
          /\ ProjectExists(projects, p)
          /\ VideoExists(videos, v)
          /\ jobs' = [jobs EXCEPT ![id] = NewRow("caption", 0, p, v, FALSE,
                                                 Cardinality(used) + 1)]
          /\ used' = used \cup {id}
    /\ UNCHANGED <<other_state, queue, worker, api, started, stop_event, start_pc,
                   pending_jobs, projects, videos>>

\* Caption.create(video_id, filename): the video_id must name a row
CaptionCreateStep ==
    /\ \E k \in FreshCaptionIds(captions), v \in DOMAIN videos :
          /\ VideoExists(videos, v)
          /\ captions' = [captions EXCEPT ![k] = NewCaption(v)]
    /\ UNCHANGED <<queue_state, projects, videos, docs, whisper_models, constructions,
                   db_lock, users, srt, files>>

StoreNext ==
    \/ ProjectCreateStep
    \/ ProjectUpdateKwargsStep
    \/ ProjectDeleteStep
    \/ ProjectHardDeleteStep
    \/ VideoCreateStep
    \/ VideoUpdateKwargsStep
    \/ VideoDeleteStep
    \/ JobCreateStep
    \/ CaptionCreateStep

StoreSpec == StoreInit /\ [][StoreNext]_vars

\* ------------------------------------------------------------------ C27
\* C27: a step that soft-deletes a project changes that row's is_deleted
\* (and updated_at) only: the other projects, the videos, the captions and
\* the jobs are as before, and Video.get_by_project returns the same videos.
C27_ProjectSoftDeleteKeepsChildren ==
    [][\A p \in DOMAIN projects :
          (ProjectExists(projects, p) /\ ProjectExists(projects', p)
             /\ projects[p].is_deleted = 0 /\ projects'[p].is_deleted = 1)
          => /\ SameBut(projects[p], projects'[p])
             /\ \A q \in DOMAIN projects \ {p} : projects'[q] = projects[q]
             /\ videos' = videos /\ captions' = captions /\ jobs' = jobs
             /\ VideoGetByProject(videos', p, FALSE) = VideoGetByProject(videos, p, FALSE)]_vars

\* C27 witness: a soft-deleted project whose video is still returned by
\* get_by_project, with a caption and a job that are not deleted.
C27_Witness ==
    \E p \in DOMAIN projects, v \in DOMAIN videos, k \in DOMAIN captions, id \in DOMAIN jobs :
        /\ ProjectExists(projects, p) /\ projects[p].is_deleted = 1
        /\ videos[v] \in VideoGetByProject(videos, p, FALSE)
        /\ captions[k].video_id = v /\ captions[k].is_deleted = 0
        /\ Exists(jobs, id) /\ jobs[id].project_id = p


\* ------------------------------------------------------------------ C28
\* the kwargs without the keys that are in no allowed-field list
ProjectAllowedOnly(kwargs) == [kwargs EXCEPT !.is_deleted = MissingInt, !.project_id = MissingInt]
VideoAllowedOnly(kwargs) == [kwargs EXCEPT !.is_deleted = MissingInt, !.project_id = MissingInt]

\* C28 as stated: in every state, for every row and all kwargs, update
\* leaves every column outside its allowed list as it is (updated_at
\* included) and ignores every key outside the list: the tables it writes
\* are those of the same call without these keys.
C28_OnlyAllowedFieldsChange ==
    /\ \A p \in DOMAIN projects, kwargs \in ProjectKwargs :
          LET P2 == ProjectUpdateKwargs(projects, p, kwargs)
          IN /\ P2[p].is_deleted = projects[p].is_deleted
             /\ P2[p].updated_at = projects[p].updated_at
             /\ \A q \in DOMAIN projects \ {p} : P2[q] = projects[q]
             /\ P2 = ProjectUpdateKwargs(projects, p, ProjectAllowedOnly(kwargs))
    /\ \A v \in DOMAIN videos, kwargs \in VideoKwargs(videos) :
          LET V2 == VideoUpdateKwargs(videos, v, kwargs)
          IN /\ V2[v].project_id = videos[v].project_id
             /\ V2[v].is_deleted = videos[v].is_deleted
             /\ V2[v].updated_at = videos[v].updated_at
             /\ \A u \in DOMAIN videos \ {v} : V2[u] = videos[u]
             /\ V2 = VideoUpdateKwargs(videos, v, VideoAllowedOnly(kwargs))

\* C28 amended: update leaves every column outside its allowed list as it is
\* except updated_at, which the AFTER UPDATE trigger stamps; a key outside
\* the list is ignored, except the key project_id of Project.update, which
\* collides with the method's own parameter: the call raises and writes
\* nothing, the allowed keys passed with it included.
C28_OnlyAllowedFieldsAndStamp ==
    /\ \A p \in DOMAIN projects, kwargs \in ProjectKwargs :
          LET P2 == ProjectUpdateKwargs(projects, p, kwargs)
          IN /\ P2[p].is_deleted = projects[p].is_deleted
             /\ \A q \in DOMAIN projects \ {p} : P2[q] = projects[q]
             /\ IF kwargs.project_id # MissingInt
                THEN P2 = projects
                ELSE P2 = ProjectUpdateKwargs(projects, p, ProjectAllowedOnly(kwargs))
    /\ \A v \in DOMAIN videos, kwargs \in VideoKwargs(videos) :
          LET V2 == VideoUpdateKwargs(videos, v, kwargs)
          IN /\ V2[v].project_id = videos[v].project_id
             /\ V2[v].is_deleted = videos[v].is_deleted
             /\ V2[v].filename = videos[v].filename /\ V2[v].is_clip = videos[v].is_clip
             /\ \A u \in DOMAIN videos \ {v} : V2[u] = videos[u]
             /\ V2 = VideoUpdateKwargs(videos, v, VideoAllowedOnly(kwargs))

\* C28 witness: update has written a project and a video (name and title
\* "b", a parent, updated_at stamped), and the project is soft-deleted, so
\* that a key is_deleted or project_id passed to update would show.
C28_Witness ==
    \E p \in DOMAIN projects, v \in DOMAIN videos :
        /\ projects[p].name = "b" /\ projects[p].updated_at = 2 /\ projects[p].is_deleted = 0
        /\ videos[v].title = "b" /\ videos[v].parent_video_id = v
        /\ videos[v].project_id = p /\ videos[v].is_deleted = 1


\* ------------------------------------------------- the transcription models
\* The scenario of C29: worker threads run caption jobs; each calls
\* get_whisper_model(model_size) and keeps the model it returns.
CaptionWorkers == 2

IdleCaptionWorker == [pc |-> "idle", size |-> "none", model |-> 0]

WhisperInit ==
    /\ jobs = [id \in JobIds |-> NoRow]
    /\ used = {}
    /\ queue = EmptyBag
    /\ worker = [w \in 1..CaptionWorkers |-> IdleCaptionWorker]
    /\ api = [c \in Clients |-> IdleClient]
    /\ started = FALSE
    /\ stop_event = FALSE
    /\ start_pc = "none"
    /\ pending_jobs = <<>>
    /\ projects = [p \in 1..MaxProjects |-> NoProject]
    /\ videos = [v \in 1..MaxVideos |-> NoVideo]
    /\ OtherInit

whisper_frame == <<jobs, used, queue, api, started, stop_event, start_pc, pending_jobs,
                   projects, videos, captions, docs, db_lock, users, srt, files>>

\* handle_caption_job: model_size = input_data.get('model_size', 'tiny');
\* model = get_whisper_model(model_size)
CaptionCall(w) ==
    /\ worker[w].pc = "idle"
    /\ \E size \in ModelSizes :
          worker' = [worker EXCEPT ![w] = [pc |-> "check", size |-> size, model |-> 0]]
    /\ UNCHANGED <<whisper_frame, whisper_models, constructions>>

\* get_whisper_model: if size not in whisper_models:
WhisperCheck(w) ==
    /\ worker[w].pc = "check"
    /\ worker' = [worker EXCEPT ![w].pc = IF whisper_models[worker[w].size] = 0
                                          THEN "construct" ELSE "return"]
    /\ UNCHANGED <<whisper_frame, whisper_models, constructions>>

\* whisper_models[size] = WhisperModel(size, ...): a new object is stored
WhisperConstruct(w) ==
    /\ worker[w].pc = "construct"
    /\ constructions' = [constructions EXCEPT ![worker[w].size] = @ + 1]
    /\ whisper_models' = [whisper_models EXCEPT ![worker[w].size] =
                             constructions'[worker[w].size]]
    /\ worker' = [worker EXCEPT ![w].pc = "return"]
    /\ UNCHANGED whisper_frame

\* return whisper_models[size]
WhisperReturn(w) ==
    /\ worker[w].pc = "return"
    /\ worker' = [worker EXCEPT ![w].pc = "transcribe",
                                ![w].model = whisper_models[worker[w].size]]
    /\ UNCHANGED <<whisper_frame, whisper_models, constructions>>

\* the rest of the handler; the thread takes its next job
CaptionDone(w) ==
    /\ worker[w].pc = "transcribe"
    /\ worker' = [worker EXCEPT ![w] = IdleCaptionWorker]
    /\ UNCHANGED <<whisper_frame, whisper_models, constructions>>

WhisperNext ==
    \E w \in DOMAIN worker :
        \/ CaptionCall(w)
        \/ WhisperCheck(w)
        \/ WhisperConstruct(w)
        \/ WhisperReturn(w)
        \/ CaptionDone(w)

WhisperSpec == WhisperInit /\ [][WhisperNext]_vars

\* ------------------------------------------------------------------ C29
\* C29: for each model_size at most one model is ever constructed, and two
\* caption jobs holding a model of the same size hold the same one.
C29_ModelConstructedOnce ==
    /\ \A s \in ModelSizes : constructions[s] <= 1
    /\ \A w1, w2 \in DOMAIN worker :
          (worker[w1].pc = "transcribe" /\ worker[w2].pc = "transcribe"
             /\ worker[w1].size = worker[w2].size)
          => worker[w1].model = worker[w2].model

\* --------------------------------------------------------- the store manager
\* The scenario of C30: threads call the methods of the DatabaseManager.
DbThreads == 4

IdleDbThread == [op |-> "idle", pc |-> "none"]

DbInit ==
    /\ jobs = [id \in JobIds |-> NoRow]
    /\ used = {}
    /\ queue = EmptyBag
    /\ worker = [w \in Workers |-> IdleWorker]
    /\ api = [c \in 1..DbThreads |-> IdleDbThread]
    /\ started = FALSE
    /\ stop_event = FALSE
    /\ start_pc = "none"
    /\ pending_jobs = <<>>
    /\ projects = [p \in 1..MaxProjects |-> NoProject]
    /\ videos = [v \in 1..MaxVideos |-> NoVideo]
    /\ OtherInit

db_frame == <<jobs, used, queue, worker, started, stop_event, start_pc, pending_jobs,
              projects, videos, captions, docs, whisper_models, constructions,
              users, srt, files>>

\* execute_write: with self._lock: (blocks while another thread holds it)
ExecuteWriteAcquire(c) ==
    /\ api[c].op = "idle"
    /\ db_lock = 0
    /\ db_lock' = c
    /\ api' = [api EXCEPT ![c] = [op |-> "execute_write", pc |-> "write"]]
    /\ UNCHANGED db_frame

\* execute_write: the statement and commit are done, the lock is released
ExecuteWriteRelease(c) ==
    /\ api[c].op = "execute_write"
    /\ db_lock' = 0
    /\ api' = [api EXCEPT ![c] = IdleDbThread]
    /\ UNCHANGED db_frame

\* execute_many: with self.get_connection() as conn: conn.executemany(...)
ExecuteManyBegin(c) ==
    /\ api[c].op = "idle"
    /\ api' = [api EXCEPT ![c] = [op |-> "execute_many", pc |-> "write"]]
    /\ UNCHANGED <<db_frame, db_lock, users, srt, files>>

\* vacuum: with self.get_connection() as conn: conn.execute("VACUUM")
VacuumBegin(c) ==
    /\ api[c].op = "idle"
    /\ api' = [api EXCEPT ![c] = [op |-> "vacuum", pc |-> "write"]]
    /\ UNCHANGED <<db_frame, db_lock, users, srt, files>>

\* execute_query: with self.get_connection() as conn: conn.execute(query)
ExecuteQueryBegin(c) ==
    /\ api[c].op = "idle"
    /\ api' = [api EXCEPT ![c] = [op |-> "execute_query", pc |-> "read"]]
    /\ UNCHANGED <<db_frame, db_lock, users, srt, files>>

\* execute_many, vacuum and execute_query return
UnlockedReturn(c) ==
    /\ api[c].op \in {"execute_many", "vacuum", "execute_query"}
    /\ api' = [api EXCEPT ![c] = IdleDbThread]
    /\ UNCHANGED <<db_frame, db_lock, users, srt, files>>

DbNext ==
    \E c \in DOMAIN api :
        \/ ExecuteWriteAcquire(c)
        \/ ExecuteWriteRelease(c)
        \/ ExecuteManyBegin(c)
        \/ VacuumBegin(c)
        \/ ExecuteQueryBegin(c)
        \/ UnlockedReturn(c)

DbSpec == DbInit /\ [][DbNext]_vars

\* ------------------------------------------------------------------ C30
\* C30: at most one thread is executing a write at any time, every thread
\* executing a write (in execute_write, execute_many or vacuum) holds the
\* write mutex, and no thread in execute_query holds it.
C30_OneWriterAtATime ==
    /\ \A c1, c2 \in DOMAIN api :
          (api[c1].pc = "write" /\ api[c2].pc = "write") => c1 = c2
    /\ \A c \in DOMAIN api : api[c].pc = "write" => db_lock = c
    /\ \A c \in DOMAIN api : api[c].pc = "read" => db_lock # c


\* ------------------------------------------------------------ execute_write
\* The scenario of C31: threads call execute_write; every attempt either
\* commits or raises one of SQLite's errors. A thread keeps the outcome of
\* its last call: how it ended, whether the statement was applied, the
\* attempts it made and the errors other than 'locked' it met.
WriteThreads == 2
WriteAttempts == 5

SqliteErrors == {"database is locked", "disk I/O error", "UNIQUE constraint failed"}
OperationalErrors == {"database is locked", "disk I/O error"}

IdleWriter == [op |-> "idle", pc |-> "none", i |-> 0, result |-> "none", error |-> "none",
               applied |-> FALSE, attempts |-> 0, others |-> 0]

WriteInit ==
    /\ jobs = [id \in JobIds |-> NoRow]
    /\ used = {}
    /\ queue = EmptyBag
    /\ worker = [w \in Workers |-> IdleWorker]
    /\ api = [c \in 1..WriteThreads |-> IdleWriter]
    /\ started = FALSE
    /\ stop_event = FALSE
    /\ start_pc = "none"
    /\ pending_jobs = <<>>
    /\ projects = [p \in 1..MaxProjects |-> NoProject]
    /\ videos = [v \in 1..MaxVideos |-> NoVideo]
    /\ OtherInit

\* A faulty retry test: every error is retried while attempts are left.
ShouldRetryAnyError(e, i) == i < WriteAttempts - 1

\* except sqlite3.OperationalError as e:
\*     if 'locked' in str(e).lower() and i < 4: ...; continue
ShouldRetry(e, i) ==
    e \in OperationalErrors /\ e = "database is locked" /\ i < WriteAttempts - 1

\* with self._lock: for i in range(5):
WriteBegin(c) ==
    /\ api[c].op = "idle"
    /\ db_lock = 0
    /\ db_lock' = c
    /\ api' = [api EXCEPT ![c] = [IdleWriter EXCEPT !.op = "execute_write", !.pc = "try"]]
    /\ UNCHANGED db_frame

\* one pass of the loop body: the statement is executed and committed and
\* rowcount returned
WriteAttemptOk(c) ==
    /\ api[c].pc = "try"
    /\ api' = [api EXCEPT ![c].pc = "exit", ![c].result = "returned",
                          ![c].applied = TRUE, ![c].attempts = @ + 1]
    /\ UNCHANGED <<db_frame, db_lock, users, srt, files>>

\* one pass of the loop body: conn.execute raises; the error is retried
\* after a sleep, or re-raised
WriteAttemptError(c) ==
    /\ api[c].pc = "try"
    /\ \E e \in SqliteErrors :
          LET seen == [api[c] EXCEPT !.attempts = @ + 1,
                                     !.others = IF e = "database is locked" THEN @ ELSE @ + 1]
          IN IF ShouldRetry(e, api[c].i)
             THEN api' = [api EXCEPT ![c] = [seen EXCEPT !.i = @ + 1]]
             ELSE api' = [api EXCEPT ![c] = [seen EXCEPT !.pc = "exit", !.result = "raised",
                                                         !.error = e]]
    /\ UNCHANGED <<db_frame, db_lock, users, srt, files>>

\* the with block is left, by return or by the exception
WriteExit(c) ==
    /\ api[c].pc = "exit"
    /\ db_lock' = 0
    /\ api' = [api EXCEPT ![c].op = "idle", ![c].pc = "none"]
    /\ UNCHANGED db_frame

WriteNext ==
    \/ \E c \in DOMAIN api : WriteBegin(c)
    \/ \E c \in DOMAIN api : WriteAttemptOk(c)
    \/ \E c \in DOMAIN api : WriteAttemptError(c)
    \/ \E c \in DOMAIN api : WriteExit(c)

WriteSpec == WriteInit /\ [][WriteNext]_vars

\* ------------------------------------------------------------------ C31
\* C31: a call of execute_write makes at most 5 attempts; it has returned
\* only if the statement was applied; an error other than the lock error
\* ends the call where it first occurs; and the lock error is raised only
\* by the 5th attempt.
C31_WriteRetryBounded ==
    \A c \in DOMAIN api :
        /\ api[c].attempts <= WriteAttempts
        /\ api[c].result = "returned" => api[c].applied
        /\ api[c].result = "raised" => ~api[c].applied
        /\ api[c].others <= 1
        /\ api[c].others = 1 => (api[c].result = "raised"
                                   /\ api[c].error # "database is locked")
        /\ (api[c].result = "raised" /\ api[c].error = "database is locked")
              => api[c].attempts = WriteAttempts

\* C31 witness: one call has raised the lock error after 5 attempts, and
\* another has returned after 4 lock errors.
C31_Witness ==
    \E c1, c2 \in DOMAIN api :
        /\ api[c1].result = "raised" /\ api[c1].error = "database is locked"
        /\ api[c1].attempts = WriteAttempts
        /\ api[c2].result = "returned" /\ api[c2].attempts = WriteAttempts

\* ------------------------------------------------- the bootstrap admin user
\* the values of usernames, passcodes and roles in the users scenario
Usernames == {"admin", "bob"}
Passcodes == {"admin", "secret", "guest"}
Roles == {"admin", "user"}

NoStartup == [op |-> "idle", passcode |-> "none", result |-> "none"]

UserInit ==
    /\ jobs = [id \in JobIds |-> NoRow]
    /\ used = {}
    /\ queue = EmptyBag
    /\ worker = [w \in Workers |-> IdleWorker]
    /\ api = [c \in Clients |-> NoStartup]
    /\ started = FALSE
    /\ stop_event = FALSE
    /\ start_pc = "none"
    /\ pending_jobs = <<>>
    /\ projects = [p \in 1..MaxProjects |-> NoProject]
    /\ videos = [v \in 1..MaxVideos |-> NoVideo]
    /\ OtherInit

users_frame == <<jobs, used, queue, worker, started, stop_event, start_pc, pending_jobs,
                 projects, videos, captions, docs, whisper_models, constructions, db_lock,
                 srt, files>>

\* SELECT * FROM users WHERE username = 'admin' (no is_deleted filter)
AdminRows(U) == {u \in DOMAIN U : U[u].username = "admin"}

\* if session.get('user_role') != 'admin': 403 -- a live user with role admin
\* is logged in
AdminSession(U) ==
    \E u \in DOMAIN U : UserExists(U, u) /\ U[u].is_deleted = 0 /\ U[u].role = "admin"

\* User.ensure_admin() with the configured passcode (default 'admin')
EnsureAdmin(c, passcode) ==
    /\ IF AdminRows(users) = {}
       THEN /\ users' = UserCreate(users, "admin", passcode, "admin")
            /\ api' = [api EXCEPT ![c] = [op |-> "ensure_admin", passcode |-> passcode,
                                          result |-> "returned"]]
       ELSE LET u == CHOOSE u \in AdminRows(users) : TRUE
            IN IF users[u].passcode = passcode
               THEN /\ users' = users
                    /\ api' = [api EXCEPT ![c] = [op |-> "ensure_admin",
                                                  passcode |-> passcode,
                                                  result |-> "returned"]]
               ELSE IF UniqueAllowed(users, u, "admin", passcode)
                    THEN /\ users' = [users EXCEPT ![u].passcode = passcode]
                         /\ api' = [api EXCEPT ![c] = [op |-> "ensure_admin",
                                                       passcode |-> passcode,
                                                       result |-> "returned"]]
                    ELSE /\ users' = users
                         /\ api' = [api EXCEPT ![c] = [op |-> "ensure_admin",
                                                       passcode |-> passcode,
                                                       result |-> "raised"]]
    /\ UNCHANGED users_frame

\* POST /users: User.create(username, passcode, role); 400 when it is None
ManageUsersPost(c, username, passcode, role) ==
    /\ AdminSession(users)
    /\ users' = UserCreate(users, username, passcode, role)
    /\ api' = [api EXCEPT ![c] = NoStartup]
    /\ UNCHANGED users_frame

\* DELETE /users/<user_id>: UPDATE users SET is_deleted = 1 WHERE id = ?
DeleteUser(c, u) ==
    /\ AdminSession(users)
    /\ users' = IF UserExists(users, u) THEN [users EXCEPT ![u].is_deleted = 1] ELSE users
    /\ api' = [api EXCEPT ![c] = NoStartup]
    /\ UNCHANGED users_frame

UserNext ==
    \/ \E c \in DOMAIN api, passcode \in Passcodes : EnsureAdmin(c, passcode)
    \/ \E c \in DOMAIN api, username \in Usernames, passcode \in Passcodes, role \in Roles :
           ManageUsersPost(c, username, passcode, role)
    \/ \E c \in DOMAIN api, u \in DOMAIN users : DeleteUser(c, u)

UserSpec == UserInit /\ [][UserNext]_vars

\* ------------------------------------------------------------------ C32
\* C32: after ensure_admin() returns, a live user named 'admin' with role
\* admin exists and its passcode is the configured passcode.
C32_AdminGuaranteed ==
    \A c \in DOMAIN api :
        (api[c].op = "ensure_admin" /\ api[c].result = "returned") =>
            \E u \in DOMAIN users :
                /\ users[u].username = "admin"
                /\ users[u].role = "admin"
                /\ users[u].is_deleted = 0
                /\ users[u].passcode = api[c].passcode

\* ---------------------------------------------- the stop and start scenario
\* A queue with two worker threads is started, download jobs are submitted
\* while it runs, and stop() and start() are called any number of times.
StopWorkers == 1
StopJobs == 1

StopInit ==
    /\ jobs = [id \in 1..StopJobs |-> NoRow]
    /\ used = {}
    /\ queue = EmptyBag
    /\ worker = [w \in 1..StopWorkers |-> IdleWorker]
    /\ api = [c \in Clients |-> IdleClient]
    /\ started = FALSE
    /\ stop_event = FALSE
    /\ start_pc = "none"
    /\ pending_jobs = <<>>
    /\ projects = [p \in 1..MaxProjects |-> NewProject("a")]
    /\ videos = [v \in 1..(StopJobs + StopWorkers) |-> NoVideo]
    /\ OtherInit

\* POST /download while the queue is started
StopSubmitCreate(c) ==
    /\ started
    /\ SubmitCreate(c, {"download"}, {0})

StopNext ==
    \/ \E c \in Clients : StopSubmitCreate(c)
    \/ \E c \in Clients : ApiSubmitPut(c)
    \/ StartBegin
    \/ StartSelect
    \/ StartPut
    \/ Stop
    \/ \E w \in 1..StopWorkers : WorkerStep(w)

\* every worker thread is scheduled again and again (threading.Thread), and
\* queue.get(timeout=1.0) returns or times out
StopSpec ==
    /\ StopInit
    /\ [][StopNext]_vars
    /\ \A w \in 1..StopWorkers : WF_vars(WorkerStep(w))

\* ------------------------------------------------------------------ C33
\* C33: once stop() has set the stop event, every worker thread eventually
\* leaves its loop (it is stopped), whether it was idle or inside a handler.
C33_StopEndsWorkers ==
    \A w \in 1..StopWorkers :
        (stop_event /\ worker[w].pc # "none") ~> (worker[w].pc = "stopped")

\* C33 witness: stop() was called while one worker waited on the empty queue
\* and the other ran a handler, and both have left their loops.
C33_Witness ==
    /\ stop_event
    /\ \A w \in 1..StopWorkers : worker[w].pc = "stopped"
    /\ \E id \in DOMAIN jobs : jobs[id].status = STATUS_COMPLETED /\ jobs[id].completed_at # 0

\* ------------------------------------------------------------------ C37
\* C37: after stop() and a later start() (the stop event is set and the queue
\* is started again), a pending job on the queue eventually leaves pending,
\* unless the queue is stopped once more.
C37_RestartedWorkersRun ==
    \A id \in 1..StopJobs :
        (/\ stop_event /\ started
         /\ jobs[id].status = STATUS_PENDING
         /\ \E e \in BagToSet(queue) : e[2] = id)
        ~> (jobs[id].status # STATUS_PENDING \/ ~started)

\* ---------------------------------------------------------------- write_srt
\* Texts are sequences of characters; segments carry a text and a list of
\* words (each a text).
MaxTextLen == 2
MaxWords == 1
MaxSegments == 2

Chars == {" ", "a"}
Texts == UNION {[1..n -> Chars] : n \in 0..MaxTextLen}
WordLists == UNION {[1..n -> Texts] : n \in 0..MaxWords}
Segments == [text : Texts, words : WordLists]
SegmentLists == UNION {[1..n -> Segments] : n \in 0..MaxSegments}

\* str.strip(): leading and trailing whitespace removed
RECURSIVE Strip(_)
Strip(t) ==
    IF t = <<>> THEN t
    ELSE IF Head(t) = " " THEN Strip(Tail(t))
    ELSE IF t[Len(t)] = " " THEN Strip(SubSeq(t, 1, Len(t) - 1))
    ELSE t

\* str.upper()
Upper(t) == [i \in DOMAIN t |-> IF t[i] = "a" THEN "A" ELSE t[i]]

\* for seg in segments: for w in seg.words: the texts in the order visited
RECURSIVE WordTexts(_)
WordTexts(segments) ==
    IF segments = <<>> THEN <<>>
    ELSE Head(segments).words \o WordTexts(Tail(segments))

SegmentTexts(segments) == [i \in DOMAIN segments |-> segments[i].text]

\* A faulty loop body: idx is incremented for a skipped text too.
RECURSIVE CueLinesCountingSkipped(_, _)
CueLinesCountingSkipped(texts, idx) ==
    IF texts = <<>> THEN <<>>
    ELSE LET text == Strip(Head(texts))
         IN IF text = <<>>
            THEN CueLinesCountingSkipped(Tail(texts), idx + 1)
            ELSE <<[kind |-> "index", idx |-> idx, text |-> <<>>],
                   [kind |-> "times", idx |-> 0, text |-> <<>>],
                   [kind |-> "text", idx |-> 0, text |-> Upper(text)],
                   [kind |-> "blank", idx |-> 0, text |-> <<>>]>>
                 \o CueLinesCountingSkipped(Tail(texts), idx + 1)

\* the loop body: text = ....strip(); if not text: continue; four lines are
\* appended (str(idx), the time stamps, text.upper(), ""); idx += 1
RECURSIVE CueLines(_, _)
CueLines(texts, idx) ==
    IF texts = <<>> THEN <<>>
    ELSE LET text == Strip(Head(texts))
         IN IF text = <<>>
            THEN CueLines(Tail(texts), idx)
            ELSE <<[kind |-> "index", idx |-> idx, text |-> <<>>],
                   [kind |-> "times", idx |-> 0, text |-> <<>>],
                   [kind |-> "text", idx |-> 0, text |-> Upper(text)],
                   [kind |-> "blank", idx |-> 0, text |-> <<>>]>>
                 \o CueLines(Tail(texts), idx + 1)

\* a caption job has transcribed: the segments and the word_level option
SrtInit ==
    /\ jobs = [id \in JobIds |-> NoRow]
    /\ used = {}
    /\ queue = EmptyBag
    /\ worker = [w \in Workers |-> IdleWorker]
    /\ api = [c \in Clients |-> IdleClient]
    /\ started = FALSE
    /\ stop_event = FALSE
    /\ start_pc = "none"
    /\ pending_jobs = <<>>
    /\ projects = [p \in 1..MaxProjects |-> NoProject]
    /\ videos = [v \in 1..MaxVideos |-> NoVideo]
    /\ captions = [k \in 1..MaxCaptions |-> NoCaption]
    /\ docs = [f \in DocFields |-> NoDoc]
    /\ whisper_models = [s \in ModelSizes |-> 0]
    /\ constructions = [s \in ModelSizes |-> 0]
    /\ db_lock = 0
    /\ users = [u \in 1..MaxUsers |-> NoUser]
    /\ srt \in [segments : SegmentLists, word_level : BOOLEAN, lines : {<<>>}, called : {FALSE}]
    /\ files = {}

\* write_srt(segments, path, word_level): idx = 1, the loop, the file
WriteSrt(segments, word_level) ==
    /\ ~srt.called
    /\ segments = srt.segments /\ word_level = srt.word_level
    /\ srt' = [segments |-> segments, word_level |-> word_level, called |-> TRUE,
               lines |-> CueLines(IF word_level THEN WordTexts(segments)
                                  ELSE SegmentTexts(segments), 1)]
    /\ UNCHANGED <<jobs, used, queue, worker, api, started, stop_event, start_pc, pending_jobs,
                   projects, videos, captions, docs, whisper_models, constructions, db_lock,
                   users, files>>

SrtNext ==
    \E segments \in SegmentLists, word_level \in BOOLEAN : WriteSrt(segments, word_level)

SrtSpec == SrtInit /\ [][SrtNext]_vars

\* the texts write_srt visits in the last call
SrtUnits == IF srt.word_level THEN WordTexts(srt.segments) ELSE SegmentTexts(srt.segments)

\* ------------------------------------------------------------------ C34
\* C34: the file holds one cue of four lines per visited text whose stripped
\* text is not empty; the k-th cue is numbered k; no cue has an empty text;
\* zero segments give zero cues.
C34_CuesNumbered ==
    srt.called =>
        LET n == Cardinality({i \in DOMAIN SrtUnits : Strip(SrtUnits[i]) # <<>>})
        IN /\ Len(srt.lines) = 4 * n
           /\ \A k \in 1..n :
                 /\ srt.lines[4 * k - 3].kind = "index" /\ srt.lines[4 * k - 3].idx = k
                 /\ srt.lines[4 * k - 1].kind = "text" /\ srt.lines[4 * k - 1].text # <<>>
                 /\ \A i \in DOMAIN srt.lines[4 * k - 1].text :
                       srt.lines[4 * k - 1].text[i] # " " \/ (i > 1 /\ i < Len(srt.lines[4 * k - 1].text))
           /\ srt.segments = <<>> => srt.lines = <<>>

\* C34 witness: a whitespace-only segment came first and was skipped, and the
\* segment after it is cue 1.
C34_Witness ==
    /\ srt.called /\ ~srt.word_level
    /\ Len(srt.segments) = 2
    /\ srt.segments[1].text = <<" ">>
    /\ Len(srt.lines) = 4
    /\ srt.lines[1].idx = 1

\* ----------------------------------------------------------- get_video_path
\* Config.UPLOAD_FOLDER and Config.PROCESSED_FOLDER
UPLOAD_FOLDER == "downloads"
PROCESSED_FOLDER == "processed"

\* A path is <<folder, subfolder, filename>>; subfolder 0 is the folder
\* itself, subfolder k is clips_<k>.
MaxParents == 2
Filenames == {"a.mp4", "b.mp4"}
Paths == {UPLOAD_FOLDER} \X {0} \X Filenames
         \cup {PROCESSED_FOLDER} \X (0..MaxParents) \X Filenames

NoCall == [op |-> "idle", filename |-> "none", parent_video_id |-> 0, result |-> <<>>]

\* the files on disk when a handler resolves a video
FilesInit ==
    /\ jobs = [id \in JobIds |-> NoRow]
    /\ used = {}
    /\ queue = EmptyBag
    /\ worker = [w \in Workers |-> IdleWorker]
    /\ api = [c \in Clients |-> NoCall]
    /\ started = FALSE
    /\ stop_event = FALSE
    /\ start_pc = "none"
    /\ pending_jobs = <<>>
    /\ projects = [p \in 1..MaxProjects |-> NoProject]
    /\ videos = [v \in 1..MaxVideos |-> NoVideo]
    /\ captions = [k \in 1..MaxCaptions |-> NoCaption]
    /\ docs = [f \in DocFields |-> NoDoc]
    /\ whisper_models = [s \in ModelSizes |-> 0]
    /\ constructions = [s \in ModelSizes |-> 0]
    /\ db_lock = 0
    /\ users = [u \in 1..MaxUsers |-> NoUser]
    /\ srt = NoSrt
    /\ files \in SUBSET Paths

\* get_video_path(video): processed_path if it exists, else the clips_<parent>
\* path if the video has a parent and that path exists, else upload_path
VideoPath(F, filename, parent_video_id) ==
    LET upload_path == <<UPLOAD_FOLDER, 0, filename>>
        processed_path == <<PROCESSED_FOLDER, 0, filename>>
        clip_subfolder_path == <<PROCESSED_FOLDER, parent_video_id, filename>>
    IN IF processed_path \in F THEN processed_path
       ELSE IF parent_video_id # 0 /\ clip_subfolder_path \in F THEN clip_subfolder_path
       ELSE upload_path

GetVideoPath(c, filename, parent_video_id) ==
    /\ api' = [api EXCEPT ![c] = [op |-> "get_video_path", filename |-> filename,
                                  parent_video_id |-> parent_video_id,
                                  result |-> VideoPath(files, filename, parent_video_id)]]
    /\ UNCHANGED <<jobs, used, queue, worker, started, stop_event, start_pc, pending_jobs,
                   projects, videos, captions, docs, whisper_models, constructions, db_lock,
                   users, srt, files>>

FilesNext ==
    \E c \in DOMAIN api, filename \in Filenames, parent_video_id \in 0..MaxParents :
        GetVideoPath(c, filename, parent_video_id)

FilesSpec == FilesInit /\ [][FilesNext]_vars

\* ------------------------------------------------------------------ C35
\* C35: the resolver returns the uploads path when the file exists in uploads
\* (also when it exists in processed too), the processed path when it exists
\* only there, and the subfolder path when it exists only in the clip
\* subfolder of the video's parent.
C35_UploadsFirst ==
    \A c \in DOMAIN api :
        api[c].op = "get_video_path" =>
            LET f == api[c].filename
                subs == {q \in files : /\ q[1] = PROCESSED_FOLDER /\ q[3] = f
                                        /\ q[2] # 0 /\ q[2] = api[c].parent_video_id}
            IN IF <<UPLOAD_FOLDER, 0, f>> \in files
               THEN api[c].result = <<UPLOAD_FOLDER, 0, f>>
               ELSE IF <<PROCESSED_FOLDER, 0, f>> \in files
               THEN api[c].result = <<PROCESSED_FOLDER, 0, f>>
               ELSE subs # {} => api[c].result \in subs

\* ------------------------------------------------- the two-worker scenario
\* One download job, two worker threads; the job is submitted, cancelled and
\* retried through the API before or after start().
DupWorkers == 2
DupJobs == 1
DupVideos == 1

DupInit ==
    /\ jobs = [id \in 1..DupJobs |-> NoRow]
    /\ used = {}
    /\ queue = EmptyBag
    /\ worker = [w \in 1..DupWorkers |-> IdleWorker]
    /\ api = [c \in Clients |-> IdleClient]
    /\ started = FALSE
    /\ stop_event = FALSE
    /\ start_pc = "none"
    /\ pending_jobs = <<>>
    /\ projects = [p \in 1..MaxProjects |-> NewProject("a")]
    /\ videos = [v \in 1..DupVideos |-> NoVideo]
    /\ OtherInit

\* POST /download
DupSubmitCreate(c) == SubmitCreate(c, {"download"}, {0})

DupNext ==
    \/ \E c \in Clients : DupSubmitCreate(c)
    \/ \E c \in Clients : ApiSubmitPut(c)
    \/ \E c \in Clients : ApiCancelRead(c)
    \/ \E c \in Clients : ApiCancelWrite(c)
    \/ \E c \in Clients : ApiRetryRead(c)
    \/ \E c \in Clients : ApiRetryWrite(c)
    \/ \E c \in Clients : ApiRetryPut(c)
    \/ StartBegin
    \/ StartSelect
    \/ StartPut
    \/ \E w \in 1..DupWorkers : WorkerStep(w)

DupSpec == DupInit /\ [][DupNext]_vars

\* ------------------------------------------------------------------ C36
\* C36: no two workers have the same job id as their current job.
C36_OneWorkerPerJob ==
    \A w1, w2 \in DOMAIN worker :
        (w1 # w2 /\ worker[w1].job # 0) => worker[w1].job # worker[w2].job

\* ------------------------------------------------ the fair submit scenario
\* The submit scenario (the queue is started, downloads of reachable urls are
\* submitted, nothing is cancelled, deleted, retried through the API or
\* stopped) with the scheduling of the threads: a worker thread, a request
\* inside submit_job and a call of start() keep running.
FairSubmitSpec ==
    /\ SubmitInit
    /\ [][SubmitNext]_vars
    /\ \A w \in Workers : WF_vars(WorkerStep(w))
    /\ \A c \in Clients : WF_vars(ApiSubmitPut(c))
    /\ WF_vars(StartBegin \/ StartSelect)

\* the handler of job id has raised into the except block of process_job
HandlerRaised(id) == \E w \in DOMAIN worker : worker[w].job = id /\ worker[w].pc = "except"

\* process_job has finished job id as completed
FinishedCompleted(id) ==
    /\ jobs[id].status = STATUS_COMPLETED
    /\ jobs[id].progress = 100
    /\ \A w \in DOMAIN worker : worker[w].job # id

\* ------------------------------------------------------------------ C38
\* C38: a submitted job that is pending and was never retried is eventually
\* finished as completed by a worker, unless its handler raises.
C38_SubmittedJobCompletes ==
    \A id \in 1..Len(SubmitPriorities) :
        (jobs[id].status = STATUS_PENDING /\ jobs[id].retry_count = 0)
        ~> (FinishedCompleted(id) \/ HandlerRaised(id))

\* C38 witness: all submitted jobs were popped and finished as completed.
C38_Witness ==
    /\ started /\ queue = EmptyBag
    /\ \A id \in 1..Len(SubmitPriorities) : FinishedCompleted(id) /\ jobs[id].retry_count = 0

\* ------------------------------------------------------ the delete scenario
\* Download jobs are submitted and deleted through the API while one worker
\* runs; the queue is started and stopped.
DropInit ==
    /\ jobs = [id \in JobIds |-> NoRow]
    /\ used = {}
    /\ queue = EmptyBag
    /\ worker = [w \in Workers |-> IdleWorker]
    /\ api = [c \in Clients |-> IdleClient]
    /\ started = FALSE
    /\ stop_event = FALSE
    /\ start_pc = "none"
    /\ pending_jobs = <<>>
    /\ projects = [p \in 1..MaxProjects |-> NewProject("a")]
    /\ videos = [v \in 1..MaxVideos |-> NoVideo]
    /\ OtherInit

DropNext ==
    \/ \E c \in Clients : ApiSubmitCreate(c)
    \/ \E c \in Clients : ApiSubmitPut(c)
    \/ \E c \in Clients : ApiDelete(c)
    \/ StartBegin
    \/ StartSelect
    \/ StartPut
    \/ Stop
    \/ \E w \in Workers : WorkerStep(w)

DropSpec == DropInit /\ [][DropNext]_vars

\* ------------------------------------------------------------------ C39
\* C39: a worker that popped the id of a missing row returns from process_job
\* at once: no row of any table is written, its current job is cleared and
\* it is back at the loop test; after a handler exception the worker goes
\* through the except block back to the loop test; and a worker leaves the
\* loop only at the loop test with the stop event set.
C39_MissingRowDropped ==
    [][\A w \in DOMAIN worker :
          /\ (worker[w].pc = "load" /\ ~Exists(jobs, worker[w].job) /\ worker'[w] # worker[w])
             => /\ jobs' = jobs /\ videos' = videos /\ projects' = projects
                /\ worker'[w].pc = "idle" /\ worker'[w].job = 0
          /\ (worker[w].pc \in {"except", "reread", "retry", "retry_write"}
              /\ worker'[w] # worker[w])
             => worker'[w].pc \in {"reread", "retry", "retry_write", "idle"}
          /\ (worker[w].pc # "stopped" /\ worker'[w].pc = "stopped")
             => (worker[w].pc = "idle" /\ stop_event)]_vars

\* C39 witness: a worker has popped the id of a job whose row was deleted
\* after it was enqueued.
C39_Witness ==
    \E w \in DOMAIN worker :
        /\ worker[w].pc = "load"
        /\ worker[w].job \in used
        /\ ~Exists(jobs, worker[w].job)

====
